---- MODULE Spec2Model ----
(***************************************************************************)
(* react-native-image-cache-hoc: the FileSystem cache engine               *)
(* (lock table, stream registry, resolution streams, fetch, eviction       *)
(* sweep) as a state machine.  JavaScript runs the code between two awaits *)
(* as one uninterrupted turn, so every action below is one such turn: the  *)
(* completion of the pending native call together with the continuation    *)
(* that follows it, up to the next native call.                            *)
(***************************************************************************)
EXTENDS Integers, Sequences, FiniteSets, TLC

(***************************************************************************)
(* Bounds of the model.                                                    *)
(***************************************************************************)
\* stream instances (ReplaySubjects) created over a run whose pipelines execute
MaxStreams == 1
\* stream instances created over a run of the synchronous calls alone
MaxInstances == 2
\* asynchronous operations (pipelines and calls) unfinished at the same time
MaxInFlight == 2
\* unlink and cacheLocalFile publish to a stream that holds fewer values than this
MaxEmitted == 2
\* modification times are 1..MaxMtime; MaxMtime is "now" for a fresh write
MaxMtime == 3
\* file sizes are 1..MaxSize
MaxSize == 2
MaxNamed == 2
MaxUpdates == 2

\* this.cachePruneTriggerLimit, in the size unit of the model
cachePruneTriggerLimit == 2

FileNames == {"f1", "f2", "f3"}
Urls == {"", "u1", "u2"}
Consumers == {"c1", "c2"}
Strategies == {"immutable", "mutable", "other"}
Mtimes == 1..MaxMtime
Sizes == 1..MaxSize

\* the fileName argument of observable() left at its default (null)
NoName == "-"
\* path: null in a CacheFileInfo
NullPath == "null"
\* a directory slot with no file in it
NoFile == [mtime |-> 0, size |-> 0]
FileStats == [mtime : Mtimes, size : Sizes]

\* sha1(url) + '.' + extension: one cache filename per URL
getFileNameFromUrl(url) ==
  CASE url = "u1" -> "f1"
    [] url = "u2" -> "f2"
    [] OTHER -> "f3"

\* the URLs, and the filenames, the consumers of the engine specification use
CallUrls == {"", "u1"}
CallNames == {getFileNameFromUrl(u) : u \in CallUrls \ {""}}

\* the id getLocalFilePathFromUrl draws with uuid.v4() for its throwaway lock
RequestId == "r1"

\* the asynchronous tasks: the pipeline of each stream instance, and one call at
\* a time of pruneCache, unlink, cacheLocalFile and getLocalFilePathFromUrl
StreamTasks == {"stream"} \X (1..MaxInstances)
PruneTask == <<"prune", 0>>
UnlinkTask == <<"unlink", 0>>
ImportTask == <<"import", 0>>
RequestTask == <<"request", 0>>
TaskIds == StreamTasks \cup {PruneTask, UnlinkTask, ImportTask, RequestTask}

VARIABLES
  cacheLock,         \* FileSystem.cacheLock: filename -> set of component ids, keys = DOMAIN
  cacheObservables,  \* FileSystem.cacheObservables: filename -> stream instance, keys = DOMAIN
  streams,           \* every ReplaySubject created so far, by instance number
  task,              \* the asynchronous tasks: pipeline position and locals
  unlinkOps,         \* RNFSUnlinkIfExists promises in flight
  dirExists,         \* the cache directory exists on disk
  files,             \* the cache directory: filename -> stat, NoFile when absent
  ret,               \* history: what the latest call of observable() returned or threw
  issued,            \* history: per filename, the instance handed out since its lock
                     \* set was last empty
  lastCall,          \* history: per filename and consumer, its latest lock-table call
  asked,             \* history: the instances that served a call with strategy mutable
                     \* made while the file was on disk
  subs,              \* per consumer, its subscription: the instance, the number of
                     \* values the instance had emitted at subscribe(), and the
                     \* number of those that were not replayed
  reqPath,           \* history: what the latest getLocalFilePathFromUrl returned
  impPath,           \* history: the path the latest cacheLocalFile that returned returned
  unlRet,            \* history: what the latest unlink() that returned returned, and
                     \* how many returns in a row had this path and this result
  pathRet,           \* history: the latest call of an operation with a path: the
                     \* operation, the path, how it went on after _validatePath and
                     \* the provider calls it issued
  named,             \* history: url -> what getFileNameFromUrl returned for it
  hoc,               \* per component of the HOC: its lifecycle phase, unmounted$,
                     \* its subscription and the setState calls it has made
  lastStatus         \* history: per instance, the status code of its latest
                     \* download that resolved, 0 before

\* the variables that record what happened and steer nothing
calls == <<pathRet, named, hoc, lastStatus>>
journal == <<subs, reqPath, impPath, unlRet, calls>>
history == <<ret, issued, lastCall, asked, journal>>

vars == <<cacheLock, cacheObservables, streams, task, unlinkOps, dirExists, files,
          history>>

----------------------------------------------------------------------------
(***************************************************************************)
(* Helpers                                                                 *)
(***************************************************************************)
\* FileSystem.cacheLock[fileName] is truthy
HasLockEntry(fileName) == fileName \in DOMAIN cacheLock

\* the consumers holding fileName
LockSet(fileName) == IF HasLockEntry(fileName) THEN cacheLock[fileName] ELSE {}

IdleTask == [pc |-> "idle", fileName |-> NoName, hdr |-> 0, fstat |-> FALSE, sub |-> 0]

\* no consumer id
NoConsumer == "-"

\* a consumer that has subscribed to nothing
NoSub == [stream |-> 0, at |-> 0, skipped |-> 0]

\* no call of getLocalFilePathFromUrl has returned
NoPath == "-"

\* no call of unlink has returned
NoUnlink == [path |-> NoName, result |-> "none", run |-> 0]

NoRet == [kind |-> "none", stream |-> 0, fileName |-> NoName, componentId |-> NoConsumer]

Present(name) == files[name] # NoFile

\* a faulty subscription of obs$: the value goes to the subject registered for
\* the filename at that moment, not to the subject the pipeline was built with
NextOnRegistered(strs, s, path, by) ==
  LET fileName == strs[s].fileName
      r == IF fileName \in DOMAIN cacheObservables THEN cacheObservables[fileName] ELSE s
  IN IF strs[r].completed THEN strs
     ELSE [strs EXCEPT ![r].emitted = Append(@, [path |-> path, by |-> by])]

\* subject$.next(v) on instance s: a completed subject takes no value
Next_(strs, s, path, by) ==
  IF strs[s].completed THEN strs
  ELSE [strs EXCEPT ![s].emitted = Append(@, [path |-> path, by |-> by])]

----------------------------------------------------------------------------
(***************************************************************************)
(* Lock table                                                              *)
(***************************************************************************)
\* a faulty lockCacheFile: the component dictionary is built anew on every call
LockedTableReplacing(table, fileName, componentId) ==
  [g \in DOMAIN table \cup {fileName} |->
     IF g = fileName THEN {componentId} ELSE table[g]]

\* cacheLock after lockCacheFile(fileName, componentId)
LockedTable(table, fileName, componentId) ==
  IF fileName \in DOMAIN table
  THEN [table EXCEPT ![fileName] = @ \cup {componentId}]
  ELSE [g \in DOMAIN table \cup {fileName} |->
          IF g = fileName THEN {componentId} ELSE table[g]]

\* unlockCacheFile finds no further component lock on the file
LastLockGone(fileName, componentId) ==
  HasLockEntry(fileName) /\ cacheLock[fileName] \ {componentId} = {}

\* a faulty unlockCacheFile: the emptied dictionary stays in cacheLock
UnlockedTableKeepingKey(fileName, componentId) ==
  IF ~HasLockEntry(fileName) THEN cacheLock
  ELSE [cacheLock EXCEPT ![fileName] = @ \ {componentId}]

\* cacheLock after unlockCacheFile(fileName, componentId)
UnlockedTable(fileName, componentId) ==
  IF ~HasLockEntry(fileName) THEN cacheLock
  ELSE IF LastLockGone(fileName, componentId)
  THEN [g \in DOMAIN cacheLock \ {fileName} |-> cacheLock[g]]
  ELSE [cacheLock EXCEPT ![fileName] = @ \ {componentId}]

\* a faulty unlockCacheFile: the registry entry is never deleted
UnlockedRegistryKeeping(fileName, componentId) == cacheObservables

\* a faulty unlockCacheFile: the registry entry is deleted on every release
UnlockedRegistryAnyRelease(fileName, componentId) ==
  IF HasLockEntry(fileName)
  THEN [g \in DOMAIN cacheObservables \ {fileName} |-> cacheObservables[g]]
  ELSE cacheObservables

\* cacheObservables after unlockCacheFile(fileName, componentId)
UnlockedRegistry(fileName, componentId) ==
  IF LastLockGone(fileName, componentId)
  THEN [g \in DOMAIN cacheObservables \ {fileName} |-> cacheObservables[g]]
  ELSE cacheObservables

lockCacheFile(fileName, componentId) ==
  /\ cacheLock' = LockedTable(cacheLock, fileName, componentId)
  /\ UNCHANGED cacheObservables

unlockCacheFile(fileName, componentId) ==
  /\ cacheLock' = UnlockedTable(fileName, componentId)
  /\ cacheObservables' = UnlockedRegistry(fileName, componentId)

----------------------------------------------------------------------------
(***************************************************************************)
(* observable(): the synchronous part                                      *)
(***************************************************************************)
\* new ReplaySubject plus the pipeline from(RNFS.stat(...)) subscribed at once
NewStream(fileName, cacheStrategy) ==
  [fileName |-> fileName, strategy |-> cacheStrategy,
   stat |-> 0, emitted |-> <<>>, downloads |-> <<>>, completed |-> FALSE]

\* baseFilePath, segment by segment: the platform directory and fileDirName
baseFilePath == <<"caches", "dir">>

\* the relative paths the callers pass besides the cache filenames, and their
\* segments (path.split('/'))
OddPaths ==
  [p \in {"../f1", "f1/../../f2", "f1/..", "..f1"} |->
     CASE p = "../f1" -> <<"..", "f1">>
       [] p = "f1/../../f2" -> <<"f1", "..", "..", "f2">>
       [] p = "f1/.." -> <<"f1", "..">>
       [] OTHER -> <<"..f1">>]

Split(path) ==
  IF path = "" THEN <<>>
  ELSE IF path \in DOMAIN OddPaths THEN OddPaths[path]
  ELSE <<path>>

RECURSIVE resolveFrom(_, _)
\* pathLib.resolve, segment by segment: '.' is dropped, '..' drops the last
\* segment kept so far
resolveFrom(kept, segments) ==
  IF segments = <<>> THEN kept
  ELSE LET seg == Head(segments) IN
       resolveFrom(IF seg = "." THEN kept
                   ELSE IF seg = ".."
                   THEN (IF kept = <<>> THEN kept ELSE SubSeq(kept, 1, Len(kept) - 1))
                   ELSE Append(kept, seg),
                   Tail(segments))

resolve(segments) == resolveFrom(<<>>, segments)

RECURSIVE CommonLen(_, _)
\* the length of the longest common prefix
CommonLen(a, b) ==
  IF a # <<>> /\ b # <<>> /\ Head(a) = Head(b)
  THEN 1 + CommonLen(Tail(a), Tail(b))
  ELSE 0

\* pathLib.relative(from, to): '..' for every segment of from below the common
\* part, then the rest of to
relative(from, to) ==
  LET a == resolve(from)
      b == resolve(to)
      n == CommonLen(a, b)
  IN [i \in 1..(Len(a) - n) |-> ".."] \o SubSeq(b, n + 1, Len(b))

\* relative.startsWith('..'): a test on the characters of the first segment
startsWithDotDot(rel) == rel # <<>> /\ rel[1] \in {"..", "..f1"}

\* _validatePath(path, absolute) throws; for an absolute path the callers
\* pass baseFilePath + fileName; pathLib.relative returns no absolute path
Throws(fileName, absolute) ==
  LET rel == relative(baseFilePath, baseFilePath \o Split(fileName)) IN
  /\ absolute \/ fileName # ""
  /\ rel = <<>> \/ startsWithDotDot(rel)

\* a faulty _validatePath: only a leading '..' of the path is refused
ValidPathLexical(fileName) == fileName = "" \/ Split(fileName)[1] # ".."

\* this._validatePath(fileName) returns true
ValidPath(fileName) == ~Throws(fileName, FALSE)

\* the path resolves outside the base directory
Outside(fileName) ==
  LET target == resolve(baseFilePath \o Split(fileName)) IN
  CommonLen(baseFilePath, target) < Len(baseFilePath)

\* a faulty lock test: cacheLock[fileName] alone
HoldsLockAnyHolder(table, fileName, componentId) == fileName \in DOMAIN table

\* the lock test of observable(): cacheLock[fileName] && cacheLock[fileName][componentId]
HoldsLock(table, fileName, componentId) ==
  fileName \in DOMAIN table /\ componentId \in table[fileName]

\* fileName = fileName || this.getFileNameFromUrl(url)
TargetName(url, fileNameArg) ==
  IF fileNameArg # NoName THEN fileNameArg ELSE getFileNameFromUrl(url)

\* of(value): a stream that emits the value to each subscriber and completes
of(value) == [emitted |-> <<value>>, completed |-> TRUE]

\* what observable() returns for an empty url
EmptyUrlObservable == of([path |-> NullPath, fileName |-> ""])

\* a faulty observable(): the cache strategy is checked before the url
observableResultStrategyFirst(table, url, componentId, cacheStrategy, fileNameArg) ==
  LET fileName == TargetName(url, fileNameArg) IN
  IF cacheStrategy \notin {"immutable", "mutable"}
  THEN [kind |-> "invalidStrategy", stream |-> 0]
  ELSE IF url = "" THEN [kind |-> "ofNull", stream |-> 0]
  ELSE IF ~HoldsLock(table, fileName, componentId)
  THEN [kind |-> "lockRequired", stream |-> 0]
  ELSE IF fileName \notin DOMAIN cacheObservables
  THEN IF ~ValidPath(fileName)
       THEN [kind |-> "invalidPath", stream |-> 0]
       ELSE [kind |-> "stream", stream |-> Len(streams) + 1]
  ELSE [kind |-> "stream", stream |-> cacheObservables[fileName]]

\* a faulty observable(): the lock is checked before the cache strategy
observableResultLockFirst(table, url, componentId, cacheStrategy, fileNameArg) ==
  LET fileName == TargetName(url, fileNameArg) IN
  IF url = "" THEN [kind |-> "ofNull", stream |-> 0]
  ELSE IF ~HoldsLock(table, fileName, componentId)
  THEN [kind |-> "lockRequired", stream |-> 0]
  ELSE IF cacheStrategy \notin {"immutable", "mutable"}
  THEN [kind |-> "invalidStrategy", stream |-> 0]
  ELSE IF fileName \notin DOMAIN cacheObservables
  THEN IF ~ValidPath(fileName)
       THEN [kind |-> "invalidPath", stream |-> 0]
       ELSE [kind |-> "stream", stream |-> Len(streams) + 1]
  ELSE [kind |-> "stream", stream |-> cacheObservables[fileName]]

\* what a call of observable() returns or throws under a lock table, decided in
\* the order of the code
observableResult(table, url, componentId, cacheStrategy, fileNameArg) ==
  LET fileName == TargetName(url, fileNameArg) IN
  IF url = "" THEN [kind |-> "ofNull", stream |-> 0]
  ELSE IF cacheStrategy \notin {"immutable", "mutable"}
  THEN [kind |-> "invalidStrategy", stream |-> 0]
  ELSE IF ~HoldsLock(table, fileName, componentId)
  THEN [kind |-> "lockRequired", stream |-> 0]
  ELSE IF fileName \notin DOMAIN cacheObservables
  THEN IF ~ValidPath(fileName)
       THEN [kind |-> "invalidPath", stream |-> 0]
       ELSE [kind |-> "stream", stream |-> Len(streams) + 1]
  ELSE [kind |-> "stream", stream |-> cacheObservables[fileName]]

\* the call finds no registry entry and creates the instance
Creates(res, fileName) == res.kind = "stream" /\ fileName \notin DOMAIN cacheObservables

\* a faulty observable(): a call that finds the instance registered hands its
\* own strategy to it
StreamsAfterAdopting(res, fileName, cacheStrategy) ==
  IF Creates(res, fileName)
  THEN Append(streams, NewStream(fileName, cacheStrategy))
  ELSE IF res.kind = "stream"
       THEN [streams EXCEPT ![res.stream].strategy = cacheStrategy]
       ELSE streams

\* the subjects after the call: new ReplaySubject
StreamsAfter(res, fileName, cacheStrategy) ==
  IF Creates(res, fileName)
  THEN Append(streams, NewStream(fileName, cacheStrategy))
  ELSE streams

\* a faulty observable(): obs$ is built but never subscribed to
TasksAfterNotSubscribing(res, fileName) == task

\* a faulty observable(): every call subscribes to obs$ anew, the coalescing
\* ones too
TasksAfterResubscribing(res, fileName) ==
  IF res.kind = "stream"
  THEN [task EXCEPT ![<<"stream", res.stream>>] =
          [IdleTask EXCEPT !.pc = "stat", !.fileName = fileName]]
  ELSE task

\* the tasks after the call: obs$.subscribe starts RNFS.stat
TasksAfter(res, fileName) ==
  IF Creates(res, fileName)
  THEN [task EXCEPT ![<<"stream", res.stream>>] =
          [IdleTask EXCEPT !.pc = "stat", !.fileName = fileName]]
  ELSE task

\* the registry after the call: cacheObservables[fileName] = subject$
RegistryAfter(res, fileName) ==
  IF Creates(res, fileName)
  THEN [g \in DOMAIN cacheObservables \cup {fileName} |->
          IF g = fileName THEN res.stream ELSE cacheObservables[g]]
  ELSE cacheObservables

\* the asynchronous operations that have not finished
InFlight ==
  Cardinality({t \in TaskIds : task[t].pc \notin {"idle", "done", "error"}})

observable(url, componentId, cacheStrategy, fileNameArg) ==
  LET fileName == TargetName(url, fileNameArg)
      res == observableResult(cacheLock, url, componentId, cacheStrategy, fileNameArg)
  IN
  /\ streams' = StreamsAfter(res, fileName, cacheStrategy)
  /\ task' = TasksAfter(res, fileName)
  /\ cacheObservables' = RegistryAfter(res, fileName)
  /\ UNCHANGED cacheLock

----------------------------------------------------------------------------
(***************************************************************************)
(* RNFSUnlinkIfExists promises started by a sweep, and Promise.all on them *)
(***************************************************************************)
OpsOf(ops, t) == {o \in ops : o.owner = t}

\* where a task goes on when its pruneCache() resolves: fetchFile stats the
\* target, cacheLocalFile checks the directory, a direct call has resolved
AfterPrune(t) ==
  CASE t[1] = "stream" -> "fetchStat"
    [] t[1] = "import" -> "importDirExists"
    [] OTHER -> "done"

\* where a task goes on when its pruneCache() rejects: fetchFile's catchError
\* starts RNFSUnlinkIfExists(path); cacheLocalFile and a direct call reject
AfterPruneFailed(t) ==
  CASE t[1] = "stream" -> "cleanupExists"
    [] t[1] = "import" -> "idle"
    [] OTHER -> "error"

\* the positions of a task with no native call pending
Settled == {"idle", "done", "error"}

\* task t moves on to pc; a finished task keeps no locals
Goto(t, pc) ==
  [task EXCEPT ![t] = IF pc = "idle" THEN IdleTask
                      ELSE IF pc \in Settled
                      THEN [IdleTask EXCEPT !.pc = pc, !.fileName = task[t].fileName]
                      ELSE [@ EXCEPT !.pc = pc]]

\* the owner of a settled unlink promise: Promise.all rejects with the first
\* rejection and resolves when the last promise resolved
Settle(t, ops, failed) ==
  IF task[t].pc # "pruneWait" THEN task
  ELSE IF failed THEN Goto(t, AfterPruneFailed(t))
  ELSE IF OpsOf(ops, t) = {} THEN Goto(t, AfterPrune(t))
  ELSE task

\* RNFS.exists(filename) of RNFSUnlinkIfExists resolves
SweepUnlinkExists(o) ==
  /\ o \in unlinkOps
  /\ o.phase = "exists"
  /\ IF Present(o.name)
     THEN /\ unlinkOps' = (unlinkOps \ {o}) \cup {[o EXCEPT !.phase = "unlink"]}
          /\ UNCHANGED task
     ELSE /\ unlinkOps' = unlinkOps \ {o}
          /\ task' = Settle(o.owner, unlinkOps', FALSE)
  /\ UNCHANGED <<cacheLock, cacheObservables, streams, dirExists, files, history>>

\* RNFS.unlink(filename) resolves: the file is removed
SweepUnlinkOk(o) ==
  /\ o \in unlinkOps
  /\ o.phase = "unlink"
  /\ Present(o.name)
  /\ files' = [files EXCEPT ![o.name] = NoFile]
  /\ unlinkOps' = unlinkOps \ {o}
  /\ task' = Settle(o.owner, unlinkOps', FALSE)
  /\ UNCHANGED <<cacheLock, cacheObservables, streams, dirExists, history>>

\* RNFS.unlink(filename) rejects
SweepUnlinkFails(o) ==
  /\ o \in unlinkOps
  /\ o.phase = "unlink"
  /\ unlinkOps' = unlinkOps \ {o}
  /\ task' = Settle(o.owner, unlinkOps', TRUE)
  /\ UNCHANGED <<cacheLock, cacheObservables, streams, dirExists, files, history>>

----------------------------------------------------------------------------
(***************************************************************************)
(* pruneCache()                                                            *)
(***************************************************************************)
\* the orders in which a set can be listed
Orders(S) ==
  {q \in [1..Cardinality(S) -> S] : \A i, j \in 1..Cardinality(S) : q[i] = q[j] => i = j}

DirEntry(name) == [name |-> name, mtime |-> files[name].mtime, size |-> files[name].size]

\* RNFS.readDir followed by dirContents.sort(by mtime): the sort is stable, so
\* entries of equal mtime keep the order of the listing, which is any order
SortedDirContents ==
  LET names == {n \in FileNames : Present(n)} IN
  {[i \in 1..Cardinality(names) |-> DirEntry(q[i])] :
     q \in {p \in Orders(names) :
              \A i, j \in 1..Cardinality(names) :
                 i < j => files[p[i]].mtime <= files[p[j]].mtime}}

RECURSIVE SumSizes(_)
\* dirContents.reduce((cacheSize, o) => cacheSize + parseInt(o.size), 0)
SumSizes(dirContents) ==
  IF dirContents = <<>> THEN 0
  ELSE Head(dirContents).size + SumSizes(Tail(dirContents))

\* a faulty test of the loop body: the lock table is not consulted
PrunableIgnoringLock(contentFile) == ValidPath(contentFile.name)

\* the test of the loop body: only unlocked files are pruned
Prunable(contentFile) == ~HasLockEntry(contentFile.name) /\ ValidPath(contentFile.name)

RECURSIVE PruneLoopCountingLocked(_, _, _)
\* a faulty loop: a skipped entry reduces the overflow too
PruneLoopCountingLocked(overflowSize, dirContents, picked) ==
  IF overflowSize > 0 /\ dirContents # <<>>
  THEN LET contentFile == Head(dirContents) IN
       PruneLoopCountingLocked(
         overflowSize - contentFile.size, Tail(dirContents),
         IF ~HasLockEntry(contentFile.name) /\ ValidPath(contentFile.name)
         THEN Append(picked, contentFile.name) ELSE picked)
  ELSE picked

RECURSIVE PruneLoop(_, _, _)
\* while (overflowSize > 0 && dirContents.length): the names whose unlink is pushed
PruneLoop(overflowSize, dirContents, picked) ==
  IF overflowSize > 0 /\ dirContents # <<>>
  THEN LET contentFile == Head(dirContents) IN
       IF Prunable(contentFile)
       THEN PruneLoop(overflowSize - contentFile.size, Tail(dirContents),
                      Append(picked, contentFile.name))
       ELSE PruneLoop(overflowSize, Tail(dirContents), picked)
  ELSE picked

\* a faulty pruneCache: a cache that has reached the budget is pruned too
PruneSelectionAtBudget(dirContents) ==
  LET currentCacheSize == SumSizes(dirContents) IN
  IF currentCacheSize >= cachePruneTriggerLimit
  THEN PruneLoop(currentCacheSize - cachePruneTriggerLimit + 1, dirContents, <<>>)
  ELSE <<>>

\* the unlink promises pruneCache pushes for a sorted listing
PruneSelection(dirContents) ==
  LET currentCacheSize == SumSizes(dirContents) IN
  IF currentCacheSize > cachePruneTriggerLimit
  THEN PruneLoop(currentCacheSize - cachePruneTriggerLimit, dirContents, <<>>)
  ELSE <<>>

Range(q) == {q[i] : i \in DOMAIN q}

\* a direct call of the public method pruneCache()
PruneCall(t) ==
  /\ t = PruneTask
  /\ task[t].pc \in {"idle", "done", "error"}
  /\ OpsOf(unlinkOps, t) = {}
  /\ InFlight < MaxInFlight
  /\ task' = [task EXCEPT ![t].pc = "pruneExists"]
  /\ UNCHANGED <<cacheLock, cacheObservables, streams, unlinkOps, dirExists, files, history>>

\* await this.exists('') in pruneCache: no directory, nothing to prune
PruneExists(t) ==
  /\ task[t].pc = "pruneExists"
  /\ task' = Goto(t, IF dirExists THEN "readDir" ELSE AfterPrune(t))
  /\ UNCHANGED <<cacheLock, cacheObservables, streams, unlinkOps, dirExists, files, history>>

\* RNFS.readDir resolves: sort, sum, select, push the unlinks, await Promise.all
PruneReadDir(t) ==
  /\ task[t].pc = "readDir"
  /\ dirExists
  /\ \E dirContents \in SortedDirContents :
       LET picked == Range(PruneSelection(dirContents)) IN
       /\ unlinkOps' = unlinkOps \cup
                         {[owner |-> t, name |-> n, phase |-> "exists"] : n \in picked}
       /\ task' = Goto(t, IF picked = {} THEN AfterPrune(t) ELSE "pruneWait")
  /\ UNCHANGED <<cacheLock, cacheObservables, streams, dirExists, files, history>>

\* RNFS.readDir rejects
PruneReadDirFails(t) ==
  /\ task[t].pc = "readDir"
  /\ task' = Goto(t, AfterPruneFailed(t))
  /\ UNCHANGED <<cacheLock, cacheObservables, streams, unlinkOps, dirExists, files, history>>

----------------------------------------------------------------------------
(***************************************************************************)
(* The production pipeline of a stream: observable()'s obs$ and fetchFile  *)
(***************************************************************************)
\* 'file://' + this.baseFilePath + fileName
LocalPath(fileName) == fileName

\* a faulty subscription: the completion of obs$ completes the subject
CompletesForwarding(strs, s) == [strs EXCEPT ![s].completed = TRUE]

\* obs$ completes: obs$.subscribe((v) => subject$.next(v)) passes a next
\* handler only, the subject is left as it is
Completes(strs, s) == strs

\* a faulty switchMap: fetchFile alone, whatever the stat found
switchMapBranchAlwaysFetching(stat, cacheStrategy) == "fetch"

\* a faulty switchMap: an existing file is revalidated under every strategy
switchMapBranchAlwaysRevalidating(stat, cacheStrategy) ==
  IF stat # NoFile THEN "concat" ELSE "fetch"

\* a faulty switchMap: an existing file is served as it is under every strategy
switchMapBranchNeverRevalidating(stat, cacheStrategy) ==
  IF stat # NoFile THEN "of" ELSE "fetch"

\* what switchMap returns for a stat result: of(local path), the local path
\* followed by a conditional fetchFile, or fetchFile alone
switchMapBranch(stat, cacheStrategy) ==
  IF stat # NoFile
  THEN IF cacheStrategy = "immutable" THEN "of" ELSE "concat"
  ELSE "fetch"

\* 'if-modified-since': new Date(stat.mtime).toUTCString(); 0 stands for a
\* fetchFile called without headers
IfModifiedSince(stat) == IF stat = NoFile THEN 0 ELSE stat.mtime

\* RNFS.stat(baseFilePath + fileName) settles (a rejection becomes null) and
\* switchMap picks the branch
StatReturns(s) ==
  LET t == <<"stream", s>>
      fileName == task[t].fileName
  IN
  /\ t \in StreamTasks
  /\ task[t].pc = "stat"
  /\ \E stat \in {files[fileName], NoFile} :
       LET branch == switchMapBranch(stat, streams[s].strategy)
           seen == [streams EXCEPT ![s].stat = stat.mtime]
       IN
       /\ streams' = CASE branch = "fetch" -> seen
                       [] branch = "of" ->
                            Completes(Next_(seen, s, LocalPath(fileName), "prod"), s)
                       [] OTHER -> Next_(seen, s, LocalPath(fileName), "prod")
       /\ task' = IF branch = "of" THEN Goto(t, "done")
                  ELSE [task EXCEPT ![t].pc = "fetchExists",
                                    ![t].hdr = IF branch = "concat"
                                               THEN IfModifiedSince(stat) ELSE 0]
  /\ UNCHANGED <<cacheLock, cacheObservables, unlinkOps, dirExists, files, history>>

\* a faulty delayWhen: an existing cache directory is left unswept
delayWhenNeverPruning(cacheDirExists) == IF cacheDirExists THEN "fetchStat" ELSE "mkdir"

\* delayWhen: cacheDirExists ? this.pruneCache() : RNFS.mkdir(this.baseFilePath)
delayWhen(cacheDirExists) == IF cacheDirExists THEN "pruneExists" ELSE "mkdir"

\* from(this.exists('')) resolves; delayWhen starts pruneCache() or RNFS.mkdir
FetchExists(t) ==
  /\ t \in StreamTasks
  /\ task[t].pc = "fetchExists"
  /\ task' = [task EXCEPT ![t].pc = delayWhen(dirExists)]
  /\ UNCHANGED <<cacheLock, cacheObservables, streams, unlinkOps, dirExists, files, history>>

\* RNFS.mkdir(this.baseFilePath) resolves
FetchMkdir(t) ==
  /\ t \in StreamTasks
  /\ task[t].pc = "mkdir"
  /\ dirExists' = TRUE
  /\ task' = [task EXCEPT ![t].pc = "fetchStat"]
  /\ UNCHANGED <<cacheLock, cacheObservables, streams, unlinkOps, files, history>>

\* RNFS.mkdir rejects: catchError starts RNFSUnlinkIfExists(path)
FetchMkdirFails(t) ==
  /\ t \in StreamTasks
  /\ task[t].pc = "mkdir"
  /\ task' = [task EXCEPT ![t].pc = "cleanupExists"]
  /\ UNCHANGED <<cacheLock, cacheObservables, streams, unlinkOps, dirExists, files, history>>

\* RNFS.stat(path) of fetchFile settles and RNFS.downloadFile is called
FetchStat(t) ==
  /\ t \in StreamTasks
  /\ task[t].pc = "fetchStat"
  /\ \E stat \in {files[task[t].fileName], NoFile} :
       task' = [task EXCEPT ![t].pc = "download", ![t].fstat = (stat # NoFile)]
  /\ streams' = [streams EXCEPT ![t[2]].downloads = Append(@, task[t].hdr)]
  /\ UNCHANGED <<cacheLock, cacheObservables, unlinkOps, dirExists, files, history>>

Statuses == {200, 304, 404}

\* a faulty fetchFile: the filter is left out, every settled download is mapped
filterMapUnfiltered(fstat, statusCode) ==
  IF ~fstat /\ statusCode # 200 THEN "throw" ELSE "emit"

\* a faulty fetchFile: map throws on no status
filterMapNeverThrowing(fstat, statusCode) ==
  IF ~fstat \/ statusCode = 200 THEN "emit" ELSE "drop"

\* a faulty fetchFile: with the file there, every status but 200 and 304 throws
filterMapFailingOtherStatus(fstat, statusCode) ==
  IF statusCode = 200 THEN "emit"
  ELSE IF ~fstat \/ statusCode # 304 THEN "throw"
  ELSE "drop"

\* filter and map on a download result: the result is dropped when the file
\* was there at fetchFile's stat and the status is not 200; map throws on a
\* first download that is not a 200 and emits the path otherwise
filterMap(fstat, statusCode) ==
  IF ~fstat \/ statusCode = 200
  THEN IF ~fstat /\ statusCode # 200 THEN "throw" ELSE "emit"
  ELSE "drop"

\* the download promise resolves with a status; filter and map decide
DownloadSettles(t, statusCode) ==
  LET fileName == task[t].fileName IN
  /\ t \in StreamTasks
  /\ task[t].pc = "download"
  /\ statusCode \in Statuses
  /\ IF statusCode = 200
     THEN /\ dirExists
          /\ files' = [files EXCEPT ![fileName] = [mtime |-> MaxMtime, size |-> MaxSize]]
     ELSE UNCHANGED files
  /\ CASE filterMap(task[t].fstat, statusCode) = "throw" ->
            /\ task' = [task EXCEPT ![t].pc = "cleanupExists"]
            /\ UNCHANGED streams
       [] filterMap(task[t].fstat, statusCode) = "emit" ->
            /\ streams' = Completes(Next_(streams, t[2], LocalPath(fileName), "prod"), t[2])
            /\ task' = Goto(t, "done")
       [] OTHER ->
            /\ task' = Goto(t, "done")
            /\ streams' = Completes(streams, t[2])
  /\ UNCHANGED <<cacheLock, cacheObservables, unlinkOps, dirExists>>

DownloadReturns(t, statusCode) == DownloadSettles(t, statusCode) /\ UNCHANGED history

\* the same step with the status code recorded
DownloadReturnsRec(t, statusCode) ==
  /\ DownloadSettles(t, statusCode)
  /\ lastStatus' = [lastStatus EXCEPT ![t[2]] = statusCode]
  /\ UNCHANGED <<ret, issued, lastCall, asked, subs, reqPath, impPath, unlRet, pathRet,
                 named, hoc>>

\* the download promise rejects, with or without a partial file left behind
DownloadThrows(t, partial) ==
  /\ t \in StreamTasks
  /\ task[t].pc = "download"
  /\ IF partial
     THEN /\ dirExists
          /\ files' = [files EXCEPT ![task[t].fileName] = [mtime |-> MaxMtime, size |-> 1]]
     ELSE UNCHANGED files
  /\ task' = [task EXCEPT ![t].pc = "cleanupExists"]
  /\ UNCHANGED <<cacheLock, cacheObservables, streams, unlinkOps, dirExists, history>>

\* catchError: RNFS.exists(path) of RNFSUnlinkIfExists resolves
CleanupExists(t) ==
  /\ t \in StreamTasks
  /\ task[t].pc = "cleanupExists"
  /\ IF Present(task[t].fileName)
     THEN /\ task' = [task EXCEPT ![t].pc = "cleanupUnlink"]
          /\ UNCHANGED streams
     ELSE /\ task' = Goto(t, "done")
          /\ streams' = Completes(Next_(streams, t[2], NullPath, "prod"), t[2])
  /\ UNCHANGED <<cacheLock, cacheObservables, unlinkOps, dirExists, files, history>>

\* catchError: RNFS.unlink(path) resolves, mapTo emits the null result
CleanupUnlink(t) ==
  /\ t \in StreamTasks
  /\ task[t].pc = "cleanupUnlink"
  /\ Present(task[t].fileName)
  /\ files' = [files EXCEPT ![task[t].fileName] = NoFile]
  /\ task' = Goto(t, "done")
  /\ streams' = Completes(Next_(streams, t[2], NullPath, "prod"), t[2])
  /\ UNCHANGED <<cacheLock, cacheObservables, unlinkOps, dirExists, history>>

\* catchError: RNFS.unlink(path) rejects, the error leaves the pipeline
CleanupUnlinkFails(t) ==
  /\ t \in StreamTasks
  /\ task[t].pc = "cleanupUnlink"
  /\ task' = Goto(t, "error")
  /\ UNCHANGED <<cacheLock, cacheObservables, streams, unlinkOps, dirExists, files, history>>

----------------------------------------------------------------------------
(***************************************************************************)
(* unlink(path): path is a cache filename, or '' for the whole directory   *)
(***************************************************************************)
\* the target of unlink(path) is on disk
TargetPresent(path) == IF path = "" THEN dirExists ELSE Present(path)

\* a faulty publication: the registered instance is not told
PublishToNobody(path, v, by) == streams

\* FileSystem.cacheObservables[path].next(v) if the entry exists
Publish(path, v, by) ==
  IF path \in DOMAIN cacheObservables
  THEN Next_(streams, cacheObservables[path], v, by)
  ELSE streams

\* the replay buffer of the instance registered for path has room for a value
CanPublish(path) ==
  path \in DOMAIN cacheObservables =>
    Len(streams[cacheObservables[path]].emitted) < MaxEmitted

\* unlink(path) is called: _validatePath passes, RNFS.exists is started
UnlinkCall(path) ==
  /\ task[UnlinkTask].pc = "idle"
  /\ InFlight < MaxInFlight
  /\ task' = [task EXCEPT ![UnlinkTask] =
                [IdleTask EXCEPT !.pc = "unlinkExists", !.fileName = path]]
  /\ UNCHANGED <<cacheLock, cacheObservables, streams, unlinkOps, dirExists, files, history>>

\* a faulty unlink: the catch block throws the error on
unlinkResultRethrowing(outcome) == IF outcome = "failed" THEN "rejected" ELSE "true"

\* what unlink() resolves to: true at the end of the try block, whether
\* RNFSUnlinkIfExists deleted the target or found none, false from the catch
unlinkResult(outcome) == IF outcome = "failed" THEN "false" ELSE "true"

\* the histories a step of unlink leaves alone
unlinkFrame == <<ret, issued, lastCall, asked, subs, reqPath, impPath, calls>>

\* unlRet after a return of unlink(path) with a result
UnlinkReturned(path, result) ==
  [path |-> path, result |-> result,
   run |-> IF unlRet.path = path /\ unlRet.result = result THEN 2 ELSE 1]

\* RNFS.exists resolves: an absent target counts as deleted, subscribers are told
UnlinkChecked ==
  LET path == task[UnlinkTask].fileName IN
  /\ task[UnlinkTask].pc = "unlinkExists"
  /\ IF TargetPresent(path)
     THEN /\ task' = [task EXCEPT ![UnlinkTask].pc = "unlinkUnlink"]
          /\ UNCHANGED streams
     ELSE /\ CanPublish(path)
          /\ task' = [task EXCEPT ![UnlinkTask] = IdleTask]
          /\ streams' = Publish(path, NullPath, "unlink")
  /\ UNCHANGED <<cacheLock, cacheObservables, unlinkOps, dirExists, files>>

UnlinkExists == UnlinkChecked /\ UNCHANGED history

\* the same step with the result recorded
UnlinkExistsRec ==
  /\ UnlinkChecked
  /\ unlRet' = IF task'[UnlinkTask].pc = "idle"
               THEN UnlinkReturned(task[UnlinkTask].fileName, unlinkResult("absent"))
               ELSE unlRet
  /\ UNCHANGED unlinkFrame

\* RNFS.unlink resolves: the target is gone, subscribers are told, true is returned
UnlinkDeleted ==
  LET path == task[UnlinkTask].fileName IN
  /\ task[UnlinkTask].pc = "unlinkUnlink"
  /\ TargetPresent(path)
  /\ CanPublish(path)
  /\ IF path = ""
     THEN /\ dirExists' = FALSE
          /\ files' = [n \in FileNames |-> NoFile]
     ELSE /\ files' = [files EXCEPT ![path] = NoFile]
          /\ UNCHANGED dirExists
  /\ task' = [task EXCEPT ![UnlinkTask] = IdleTask]
  /\ streams' = Publish(path, NullPath, "unlink")
  /\ UNCHANGED <<cacheLock, cacheObservables, unlinkOps>>

UnlinkOk == UnlinkDeleted /\ UNCHANGED history

\* the same step with the result recorded
UnlinkOkRec ==
  /\ UnlinkDeleted
  /\ unlRet' = UnlinkReturned(task[UnlinkTask].fileName, unlinkResult("deleted"))
  /\ UNCHANGED unlinkFrame

\* RNFS.unlink rejects: false is returned
UnlinkRejected ==
  /\ task[UnlinkTask].pc = "unlinkUnlink"
  /\ task' = [task EXCEPT ![UnlinkTask] = IdleTask]
  /\ UNCHANGED <<cacheLock, cacheObservables, streams, unlinkOps, dirExists, files>>

UnlinkFails == UnlinkRejected /\ UNCHANGED history

\* the same step with the result recorded
UnlinkFailsRec ==
  /\ UnlinkRejected
  /\ unlRet' = UnlinkReturned(task[UnlinkTask].fileName, unlinkResult("failed"))
  /\ UNCHANGED unlinkFrame

----------------------------------------------------------------------------
(***************************************************************************)
(* cacheLocalFile(local, url, move, mtime, ctime)                          *)
(***************************************************************************)
\* the call: the path is validated and RNFS.exists(local) is started
ImportCall(url) ==
  /\ task[ImportTask].pc = "idle"
  /\ OpsOf(unlinkOps, ImportTask) = {}
  /\ InFlight < MaxInFlight
  /\ task' = [task EXCEPT ![ImportTask] =
                [IdleTask EXCEPT !.pc = "importLocalExists",
                                 !.fileName = getFileNameFromUrl(url)]]
  /\ UNCHANGED <<cacheLock, cacheObservables, streams, unlinkOps, dirExists, files, history>>

\* a faulty cacheLocalFile: the sweep is started before the local file is looked at
AfterLocalCheckSweepingAnyway(localExists) == "pruneExists"

\* where cacheLocalFile goes on after RNFS.exists(local): it returns path null
\* without the local file, and calls pruneCache() with it
AfterLocalCheck(localExists) == IF localExists THEN "pruneExists" ELSE "idle"

\* the histories a step of cacheLocalFile leaves alone
importFrame == <<ret, issued, lastCall, asked, subs, reqPath, unlRet, calls>>

\* RNFS.exists(local) resolves
ImportLocalChecked(localExists) ==
  /\ task[ImportTask].pc = "importLocalExists"
  /\ task' = Goto(ImportTask, AfterLocalCheck(localExists))
  /\ UNCHANGED <<cacheLock, cacheObservables, streams, unlinkOps, dirExists, files>>

ImportLocalExists(localExists) == ImportLocalChecked(localExists) /\ UNCHANGED history

\* the same step with the returned path recorded
ImportLocalExistsRec(localExists) ==
  /\ ImportLocalChecked(localExists)
  /\ impPath' = IF task'[ImportTask].pc = "idle" THEN NullPath ELSE impPath
  /\ UNCHANGED importFrame

\* this.exists('') resolves: mkdir, or straight to RNFSUnlinkIfExists(path)
ImportDirExists ==
  /\ task[ImportTask].pc = "importDirExists"
  /\ task' = [task EXCEPT ![ImportTask].pc =
                IF dirExists THEN "importRmExists" ELSE "importMkdir"]
  /\ UNCHANGED <<cacheLock, cacheObservables, streams, unlinkOps, dirExists, files, history>>

\* a native call inside the try block rejects: the catch block starts
\* RNFSUnlinkIfExists(path)
ImportStepFails ==
  /\ task[ImportTask].pc \in {"importMkdir", "importRmUnlink", "importCopy", "importTouch"}
  /\ task' = [task EXCEPT ![ImportTask].pc = "importCatchExists"]
  /\ UNCHANGED <<cacheLock, cacheObservables, streams, unlinkOps, dirExists, files, history>>

\* RNFS.mkdir resolves
ImportMkdir ==
  /\ task[ImportTask].pc = "importMkdir"
  /\ dirExists' = TRUE
  /\ task' = [task EXCEPT ![ImportTask].pc = "importRmExists"]
  /\ UNCHANGED <<cacheLock, cacheObservables, streams, unlinkOps, files, history>>

\* RNFS.exists(path) of RNFSUnlinkIfExists resolves: unlink, or move / copy at once
ImportRmExists ==
  /\ task[ImportTask].pc = "importRmExists"
  /\ task' = [task EXCEPT ![ImportTask].pc =
                IF Present(task[ImportTask].fileName) THEN "importRmUnlink"
                ELSE "importCopy"]
  /\ UNCHANGED <<cacheLock, cacheObservables, streams, unlinkOps, dirExists, files, history>>

\* RNFS.unlink(path) resolves: the previous file is gone
ImportRmUnlink ==
  /\ task[ImportTask].pc = "importRmUnlink"
  /\ Present(task[ImportTask].fileName)
  /\ files' = [files EXCEPT ![task[ImportTask].fileName] = NoFile]
  /\ task' = [task EXCEPT ![ImportTask].pc = "importCopy"]
  /\ UNCHANGED <<cacheLock, cacheObservables, streams, unlinkOps, dirExists, history>>

\* RNFS.moveFile / RNFS.copyFile resolves: the file is at the cache path
ImportCopy ==
  /\ task[ImportTask].pc = "importCopy"
  /\ dirExists
  /\ files' = [files EXCEPT ![task[ImportTask].fileName] =
                 [mtime |-> MaxMtime, size |-> MaxSize]]
  /\ task' = [task EXCEPT ![ImportTask].pc = "importTouch"]
  /\ UNCHANGED <<cacheLock, cacheObservables, streams, unlinkOps, dirExists, history>>

\* this.baseFilePath + fileName, the path cacheLocalFile returns
CachePath(fileName) == "/" \o fileName

\* RNFS.touch(path, mtime, ctime) resolves; the change is published and the
\* path returned
ImportTouches(mtime) ==
  LET fileName == task[ImportTask].fileName IN
  /\ task[ImportTask].pc = "importTouch"
  /\ Present(fileName)
  /\ CanPublish(fileName)
  /\ files' = [files EXCEPT ![fileName].mtime = mtime]
  /\ streams' = Publish(fileName, LocalPath(fileName), "import")
  /\ task' = [task EXCEPT ![ImportTask] = IdleTask]
  /\ UNCHANGED <<cacheLock, cacheObservables, unlinkOps, dirExists>>

ImportTouch(mtime) == ImportTouches(mtime) /\ UNCHANGED history

\* the same step with the returned path recorded
ImportTouchRec(mtime) ==
  /\ ImportTouches(mtime)
  /\ impPath' = CachePath(task[ImportTask].fileName)
  /\ UNCHANGED importFrame

\* catch: RNFS.exists(path) of RNFSUnlinkIfExists resolves; nothing there, the
\* call returns path null
ImportCatchChecked ==
  /\ task[ImportTask].pc = "importCatchExists"
  /\ task' = IF Present(task[ImportTask].fileName)
             THEN [task EXCEPT ![ImportTask].pc = "importCatchUnlink"]
             ELSE [task EXCEPT ![ImportTask] = IdleTask]
  /\ UNCHANGED <<cacheLock, cacheObservables, streams, unlinkOps, dirExists, files>>

ImportCatchExists == ImportCatchChecked /\ UNCHANGED history

\* the same step with the returned path recorded
ImportCatchExistsRec ==
  /\ ImportCatchChecked
  /\ impPath' = IF task'[ImportTask].pc = "idle" THEN NullPath ELSE impPath
  /\ UNCHANGED importFrame

\* catch: RNFS.unlink(path) resolves and the call returns path null
ImportCatchUnlinked ==
  /\ task[ImportTask].pc = "importCatchUnlink"
  /\ Present(task[ImportTask].fileName)
  /\ files' = [files EXCEPT ![task[ImportTask].fileName] = NoFile]
  /\ task' = [task EXCEPT ![ImportTask] = IdleTask]
  /\ UNCHANGED <<cacheLock, cacheObservables, streams, unlinkOps, dirExists>>

ImportCatchUnlink == ImportCatchUnlinked /\ UNCHANGED history

\* the same step with the returned path recorded
ImportCatchUnlinkRec ==
  /\ ImportCatchUnlinked
  /\ impPath' = NullPath
  /\ UNCHANGED importFrame

\* catch: RNFS.unlink(path) rejects and the call rejects
ImportCatchUnlinkFails ==
  /\ task[ImportTask].pc = "importCatchUnlink"
  /\ task' = [task EXCEPT ![ImportTask] = IdleTask]
  /\ UNCHANGED <<cacheLock, cacheObservables, streams, unlinkOps, dirExists, files, history>>

----------------------------------------------------------------------------
(***************************************************************************)
(* getLocalFilePathFromUrl(url)                                            *)
(***************************************************************************)
\* the call up to its await: lockCacheFile, then observable() with strategy
\* immutable under the fresh request id, then take(1) subscribes
RequestCall(url) ==
  LET fileName == getFileNameFromUrl(url)
      table == LockedTable(cacheLock, fileName, RequestId)
      res == observableResult(table, url, RequestId, "immutable", fileName)
  IN
  /\ task[RequestTask].pc = "idle"
  /\ InFlight < MaxInFlight
  /\ res.kind \in {"stream", "ofNull"}
  /\ Creates(res, fileName) => res.stream <= MaxStreams /\ InFlight + 1 < MaxInFlight
  /\ cacheLock' = table
  /\ streams' = StreamsAfter(res, fileName, "immutable")
  /\ cacheObservables' = RegistryAfter(res, fileName)
  /\ task' = [TasksAfter(res, fileName) EXCEPT ![RequestTask] =
                [IdleTask EXCEPT !.pc = "requestAwait", !.fileName = fileName,
                                 !.sub = res.stream]]
  /\ UNCHANGED <<unlinkOps, dirExists, files, history>>

\* a faulty take: the latest value of the buffer is taken
LatestValue(buffer) == buffer[Len(buffer)]

\* take(1) on the ReplaySubject: the oldest value of its buffer
FirstValue(buffer) == buffer[1]

\* the path the await of getLocalFilePathFromUrl resolves to: that of the first
\* value of the instance, or null, the single value of of(...) for an empty url
RequestPath ==
  LET sub == task[RequestTask].sub IN
  IF sub = 0 THEN NullPath ELSE FirstValue(streams[sub].emitted).path

\* the first value arrives; finally: unlockCacheFile
RequestSettles ==
  LET fileName == task[RequestTask].fileName
      sub == task[RequestTask].sub
  IN
  /\ task[RequestTask].pc = "requestAwait"
  /\ sub # 0 => streams[sub].emitted # <<>>
  /\ unlockCacheFile(fileName, RequestId)
  /\ task' = [task EXCEPT ![RequestTask] = IdleTask]
  /\ UNCHANGED <<streams, unlinkOps, dirExists, files>>

RequestReturns == RequestSettles /\ UNCHANGED history

\* the same step with the returned path recorded
RequestReturnsRec ==
  /\ RequestSettles
  /\ reqPath' = RequestPath
  /\ UNCHANGED <<ret, issued, lastCall, asked, subs, impPath, unlRet, calls>>

----------------------------------------------------------------------------
(***************************************************************************)
(* Calls of the public API by the consumers                                *)
(***************************************************************************)
\* room for one more instance and one more pipeline
CanCreate(res, fileName) ==
  Creates(res, fileName) => Len(streams) < MaxStreams /\ InFlight < MaxInFlight

\* the instances that served a mutable call for a file on disk, after a call
AskedAfter(res, fileName, cacheStrategy) ==
  IF res.kind = "stream" /\ cacheStrategy = "mutable" /\ Present(fileName)
  THEN asked \cup {res.stream}
  ELSE asked

LockCall(fileName, componentId) ==
  /\ lockCacheFile(fileName, componentId)
  /\ UNCHANGED <<streams, task, unlinkOps, dirExists, files, history>>

UnlockCall(fileName, componentId) ==
  /\ unlockCacheFile(fileName, componentId)
  /\ UNCHANGED <<streams, task, unlinkOps, dirExists, files, history>>

ObservableCall(url, componentId, cacheStrategy, fileNameArg) ==
  LET fileName == TargetName(url, fileNameArg)
      res == observableResult(cacheLock, url, componentId, cacheStrategy, fileNameArg)
  IN
  /\ CanCreate(res, fileName)
  /\ observable(url, componentId, cacheStrategy, fileNameArg)
  /\ asked' = AskedAfter(res, fileName, cacheStrategy)
  /\ UNCHANGED <<unlinkOps, dirExists, files, ret, issued, lastCall, journal>>

\* a faulty subject: new ReplaySubject(1) replays the latest value only
ReplayedLatestOnly(buffer) ==
  IF buffer = <<>> THEN <<>> ELSE <<buffer[Len(buffer)]>>

\* what new ReplaySubject<CacheFileInfo>() replays to a new subscriber: its
\* buffer, unbounded in size and in time
Replayed(buffer) == buffer

\* observable(...).subscribe(...) by a consumer: the call of observable() and,
\* in the same turn, the subscription to the instance it returned
SubscribeCall(url, componentId, cacheStrategy) ==
  LET fileName == TargetName(url, NoName)
      res == observableResult(cacheLock, url, componentId, cacheStrategy, NoName)
      buffer == IF Creates(res, fileName) THEN <<>> ELSE streams[res.stream].emitted
  IN
  /\ res.kind = "stream"
  /\ CanCreate(res, fileName)
  /\ observable(url, componentId, cacheStrategy, NoName)
  /\ asked' = AskedAfter(res, fileName, cacheStrategy)
  /\ subs' = [subs EXCEPT ![componentId] =
                [stream |-> res.stream, at |-> Len(buffer),
                 skipped |-> Len(buffer) - Len(Replayed(buffer))]]
  /\ UNCHANGED <<unlinkOps, dirExists, files, ret, issued, lastCall, reqPath, impPath,
                 unlRet, calls>>

\* the values the subscription of a consumer has been handed: the replayed
\* ones, then every value the subject took since
Received(componentId) ==
  LET sub == subs[componentId] IN
  IF sub.stream = 0 THEN <<>>
  ELSE SubSeq(streams[sub.stream].emitted, sub.skipped + 1,
              Len(streams[sub.stream].emitted))

----------------------------------------------------------------------------
(***************************************************************************)
(* The same calls with their history recorded                              *)
(***************************************************************************)
\* the instance handed out for a filename and the number of calls it served (at
\* most two are counted), forgotten when the filename's lock set becomes empty
NoIssue == [stream |-> 0, calls |-> 0]

IssuedAfterCall(res, fileName) ==
  IF res.kind = "stream"
  THEN [issued EXCEPT ![fileName] =
          [stream |-> res.stream,
           calls |-> IF @.stream = res.stream /\ @.calls >= 1 THEN 2 ELSE 1]]
  ELSE issued

IssuedAfterUnlock ==
  [f \in FileNames |-> IF f \in DOMAIN cacheLock' THEN issued[f] ELSE NoIssue]

\* what the caller of observable() got, with the filename and the caller
Returned(res, url, componentId, fileNameArg) ==
  [kind |-> res.kind, stream |-> res.stream,
   fileName |-> IF url = "" THEN NoName ELSE TargetName(url, fileNameArg),
   componentId |-> componentId]

LockCallRec(fileName, componentId) ==
  /\ lockCacheFile(fileName, componentId)
  /\ lastCall' = [lastCall EXCEPT ![fileName][componentId] = "lock"]
  /\ UNCHANGED <<streams, task, unlinkOps, dirExists, files, ret, issued, asked, journal>>

UnlockCallRec(fileName, componentId) ==
  /\ unlockCacheFile(fileName, componentId)
  /\ lastCall' = [lastCall EXCEPT ![fileName][componentId] = "unlock"]
  /\ issued' = IssuedAfterUnlock
  /\ UNCHANGED <<streams, task, unlinkOps, dirExists, files, ret, asked, journal>>

ObservableCallRec(url, componentId, cacheStrategy, fileNameArg) ==
  LET fileName == TargetName(url, fileNameArg)
      res == observableResult(cacheLock, url, componentId, cacheStrategy, fileNameArg)
  IN
  /\ Creates(res, fileName) => Len(streams) < MaxInstances
  /\ observable(url, componentId, cacheStrategy, fileNameArg)
  /\ ret' = Returned(res, url, componentId, fileNameArg)
  /\ issued' = IssuedAfterCall(res, fileName)
  /\ UNCHANGED <<unlinkOps, dirExists, files, lastCall, asked, journal>>

----------------------------------------------------------------------------
(***************************************************************************)
(* getFileNameFromUrl(url), character by character                         *)
(***************************************************************************)
\* the scheme and the host of the URLs, the pathnames, the query strings and
\* the fragments they are made of
Origin == <<"h">>
UrlPaths ==
  {<<"/", "a">>, <<"/", "a", ".", "p">>, <<"/", "a", ".", "b", "/", "c">>,
   <<"/", "a", ".", "p", ".", "g">>, <<"/", "a", ".">>}
UrlQueries == {<<>>, <<"?", "q">>, <<"?", "r", ".", "j">>}
UrlHashes == {<<>>, <<"#", "x">>}
UrlStrings == {Origin \o p \o q \o h : p \in UrlPaths, q \in UrlQueries, h \in UrlHashes}

RECURSIVE upTo(_, _)
\* the characters before the first of the stop characters
upTo(chars, stops) ==
  IF chars = <<>> \/ Head(chars) \in stops THEN <<>>
  ELSE <<Head(chars)>> \o upTo(Tail(chars), stops)

\* new URL(url).pathname: what follows the host, up to the query or the fragment
pathname(url) == upTo(SubSeq(url, Len(Origin) + 1, Len(url)), {"?", "#"})

RECURSIVE split(_, _, _)
\* String.split(separator): the pieces between separators, with the piece read so far
split(chars, separator, piece) ==
  IF chars = <<>> THEN <<piece>>
  ELSE IF Head(chars) = separator
  THEN <<piece>> \o split(Tail(chars), separator, <<>>)
  ELSE split(Tail(chars), separator, Append(piece, Head(chars)))

\* urlParts.pathname.split('.').pop()
urlExt(url) ==
  LET pieces == split(pathname(url), ".", <<>>) IN pieces[Len(pieces)]

\* urlExt === urlParts.pathname ? 'bin' : urlExt
extension(url) ==
  IF urlExt(url) = pathname(url) THEN <<"b", "i", "n">> ELSE urlExt(url)

\* sha1(text).toString(): a digest, taken to be free of collisions
sha1(text) == [digestOf |-> text]

\* a faulty getFileNameFromUrl: the digest is taken of the pathname
FileNameFromPathname(url) == [digest |-> sha1(pathname(url)), extension |-> extension(url)]

\* sha1(url).toString() + '.' + extension
FileNameFromUrl(url) == [digest |-> sha1(url), extension |-> extension(url)]

\* a call of getFileNameFromUrl(url), its result noted
GetFileNameCall(url) ==
  /\ url \in DOMAIN named \/ Cardinality(DOMAIN named) < MaxNamed
  /\ named' = [u \in DOMAIN named \cup {url} |->
                 IF u = url THEN FileNameFromUrl(url) ELSE named[u]]
  /\ UNCHANGED <<cacheLock, cacheObservables, streams, task, unlinkOps, dirExists, files,
                 ret, issued, lastCall, asked, subs, reqPath, impPath, unlRet, pathRet,
                 hoc, lastStatus>>

----------------------------------------------------------------------------
(***************************************************************************)
(* Calls with a path: exists, fetchFile, unlink and observable             *)
(***************************************************************************)
NoPathRet == [op |-> "none", path |-> NoName, outcome |-> "none", provider |-> 0]

\* the histories a call with a path leaves alone
pathFrame ==
  <<ret, issued, lastCall, asked, subs, reqPath, impPath, unlRet, named, hoc, lastStatus>>

\* what a call that validates its path first does: the error, or the provider
\* calls it issues before it returns
Validated(op, path, valid, provider) ==
  [op |-> op, path |-> path,
   outcome |-> IF valid THEN "called" ELSE "invalidPath",
   provider |-> IF valid THEN provider ELSE 0]

\* exists(path): _validatePath, then RNFS.exists
ExistsCallAt(path) ==
  /\ pathRet' = Validated("exists", path, ValidPath(path), 1)
  /\ UNCHANGED <<cacheLock, cacheObservables, streams, task, unlinkOps, dirExists, files,
                 pathFrame>>

\* fetchFile(url, fileName) called directly: _validatePath on the absolute
\* path, then this.exists('') as the argument of from()
FetchFileCallAt(fileName) ==
  /\ fileName # ""
  /\ pathRet' = Validated("fetchFile", fileName, ~Throws(fileName, TRUE), 1)
  /\ UNCHANGED <<cacheLock, cacheObservables, streams, task, unlinkOps, dirExists, files,
                 pathFrame>>

\* unlink(path): _validatePath throws inside the async function, or RNFS.exists
\* is started
UnlinkCallAt(path) ==
  /\ task[UnlinkTask].pc = "idle"
  /\ InFlight < MaxInFlight
  /\ IF ValidPath(path)
     THEN task' = [task EXCEPT ![UnlinkTask] =
                     [IdleTask EXCEPT !.pc = "unlinkExists", !.fileName = path]]
     ELSE UNCHANGED task
  /\ pathRet' = Validated("unlink", path, ValidPath(path), 1)
  /\ UNCHANGED <<cacheLock, cacheObservables, streams, unlinkOps, dirExists, files,
                 pathFrame>>

\* the url the callers of observable() pass next to a fileName
PathUrl == "u1"

\* observable(url, componentId, 'immutable', fileName)
ObservableCallAt(fileName, componentId) ==
  LET res == observableResult(cacheLock, PathUrl, componentId, "immutable", fileName) IN
  /\ fileName # ""
  /\ Creates(res, fileName) => Len(streams) < MaxInstances /\ InFlight < MaxInFlight
  /\ observable(PathUrl, componentId, "immutable", fileName)
  /\ pathRet' = [op |-> "observable", path |-> fileName, outcome |-> res.kind,
                 provider |-> IF Creates(res, fileName) THEN 1 ELSE 0]
  /\ UNCHANGED <<unlinkOps, dirExists, files, pathFrame>>

----------------------------------------------------------------------------
(***************************************************************************)
(* The component of imageCacheHoc: componentDidMount, componentWillUnmount *)
(***************************************************************************)
\* props.source.uri of the components: a valid https url that does not change
HocUrl == "u1"

\* the values of props.source.uri: two remote urls the validator accepts, an
\* http url it rejects with the default validProtocols, and a file: url
SourceUris == {"u1", "u2", "http", "file"}

\* _validateImageComponent(): the uri is there and validator.isURL accepts it
validateImageComponent(uri) == uri \in {"u1", "u2"}

\* url && new URL(url).protocol === 'file:'
isFile(uri) == uri = "file"

\* a component after its constructor: unmounted$ = new BehaviorSubject(true),
\* no subscription, no setState call
NoHoc ==
  [phase |-> "constructed", unmounted |-> TRUE, skipLeft |-> 0, stream |-> 0,
   at |-> 0, got |-> 0, active |-> FALSE, uri |-> "", updates |-> 0]

\* the calls of onSourceLoaded, hence of setState, a component has made: those
\* counted when it subscribed or stopped, and one for every value its
\* instance emitted since while its subscription is active
SetStates(c) ==
  hoc[c].got +
    IF hoc[c].active THEN Len(streams[hoc[c].stream].emitted) - hoc[c].at ELSE 0

\* a faulty pipe: no takeUntil, a value of unmounted$ stops nothing
TakeUntilStopsNever(sub) == FALSE

\* takeUntil(this.unmounted$.pipe(skip(1))): a value of unmounted$ that skip
\* lets through ends the subscription
TakeUntilStops(sub) == sub.active /\ sub.skipLeft = 0

\* the histories a step of a component leaves alone
hocFrame ==
  <<ret, issued, lastCall, asked, subs, reqPath, impPath, unlRet, pathRet, named,
    lastStatus>>

\* componentDidMount with props.source.uri = url: unmounted$.next(false); for
\* a file: url onSourceLoaded at once; for a valid url lockCacheFile,
\* observable(), and subscribe: the notifier takes the current value of
\* unmounted$ and skips it, the subject replays its buffer to onSourceLoaded;
\* for any other url nothing more
componentDidMount(c, url, cacheStrategy) ==
  LET fileName == getFileNameFromUrl(url)
      table == LockedTable(cacheLock, fileName, c)
      res == observableResult(table, url, c, cacheStrategy, NoName)
      buffer == IF Creates(res, fileName) THEN <<>> ELSE streams[res.stream].emitted
      mounted == [hoc[c] EXCEPT !.phase = "mounted", !.unmounted = FALSE, !.uri = url]
  IN
  /\ hoc[c].phase = "constructed"
  /\ IF isFile(url)
     THEN /\ hoc' = [hoc EXCEPT ![c] = [mounted EXCEPT !.got = 1]]
          /\ UNCHANGED <<cacheLock, cacheObservables, streams, task>>
     ELSE IF validateImageComponent(url)
     THEN /\ res.kind = "stream"
          /\ Creates(res, fileName) => Len(streams) < MaxInstances /\ InFlight < MaxInFlight
          /\ cacheLock' = table
          /\ streams' = StreamsAfter(res, fileName, cacheStrategy)
          /\ cacheObservables' = RegistryAfter(res, fileName)
          /\ task' = TasksAfter(res, fileName)
          /\ hoc' = [hoc EXCEPT ![c] =
                       [mounted EXCEPT !.skipLeft = 1 - 1, !.stream = res.stream,
                                       !.at = Len(buffer),
                                       !.got = Len(Replayed(buffer)),
                                       !.active = TRUE]]
     ELSE /\ hoc' = [hoc EXCEPT ![c] = mounted]
          /\ UNCHANGED <<cacheLock, cacheObservables, streams, task>>
  /\ UNCHANGED <<unlinkOps, dirExists, files, hocFrame>>

\* a faulty componentDidUpdate: the lock of the new url is the one released
fileNameOfNextUrl(url, nextUrl) == getFileNameFromUrl(nextUrl)

\* const fileName = this.fileSystem.getFileNameFromUrl(url) of
\* componentDidUpdate: the filename of the url of prevProps
fileNameOfPrevUrl(url, nextUrl) == getFileNameFromUrl(url)

\* componentDidUpdate after props.source.uri changed to nextUrl:
\* unlockCacheFile for the previous url, this.subscription?.unsubscribe(), the
\* validation anew, and then as in componentDidMount, but for
\* setState({source: undefined}) when the new url is neither valid nor a file
componentDidUpdate(c, nextUrl, cacheStrategy) ==
  LET url == hoc[c].uri
      fileName == fileNameOfPrevUrl(url, nextUrl)
      unlocked == UnlockedTable(fileName, c)
      unregistered == UnlockedRegistry(fileName, c)
      nextFileName == getFileNameFromUrl(nextUrl)
      table == LockedTable(unlocked, nextFileName, c)
      creates == nextFileName \notin DOMAIN unregistered
      stream == IF creates THEN Len(streams) + 1 ELSE unregistered[nextFileName]
      buffer == IF creates THEN <<>> ELSE streams[stream].emitted
      unsubscribed == [hoc[c] EXCEPT !.uri = nextUrl, !.updates = @ + 1,
                                     !.active = FALSE, !.got = SetStates(c)]
  IN
  /\ hoc[c].phase = "mounted"
  /\ hoc[c].updates < MaxUpdates
  /\ url # nextUrl
  /\ IF isFile(nextUrl) \/ ~validateImageComponent(nextUrl)
     THEN /\ cacheLock' = unlocked
          /\ cacheObservables' = unregistered
          /\ hoc' = [hoc EXCEPT ![c] = [unsubscribed EXCEPT !.got = @ + 1]]
          /\ UNCHANGED <<streams, task>>
     ELSE /\ creates => Len(streams) < MaxInstances /\ InFlight < MaxInFlight
          /\ cacheLock' = table
          /\ streams' = IF creates
                        THEN Append(streams, NewStream(nextFileName, cacheStrategy))
                        ELSE streams
          /\ cacheObservables' =
               [g \in DOMAIN unregistered \cup {nextFileName} |->
                  IF g = nextFileName THEN stream ELSE unregistered[g]]
          /\ task' = IF creates
                     THEN [task EXCEPT ![<<"stream", stream>>] =
                             [IdleTask EXCEPT !.pc = "stat", !.fileName = nextFileName]]
                     ELSE task
          /\ hoc' = [hoc EXCEPT ![c] =
                       [unsubscribed EXCEPT !.skipLeft = 1 - 1, !.stream = stream,
                                            !.at = Len(buffer),
                                            !.got = @ + Len(Replayed(buffer)),
                                            !.active = TRUE]]
  /\ UNCHANGED <<unlinkOps, dirExists, files, hocFrame>>

\* componentWillUnmount: unmounted$.next(true) reaches the notifier, then
\* unlockCacheFile for the url of the props
componentWillUnmount(c) ==
  LET fileName == getFileNameFromUrl(hoc[c].uri)
      stops == TakeUntilStops(hoc[c])
  IN
  /\ hoc[c].phase = "mounted"
  /\ unlockCacheFile(fileName, c)
  /\ hoc' = [hoc EXCEPT ![c] =
               [@ EXCEPT !.phase = "unmounted", !.unmounted = TRUE,
                         !.skipLeft = IF @ > 0 THEN @ - 1 ELSE 0,
                         !.active = IF stops THEN FALSE ELSE hoc[c].active,
                         !.got = IF stops THEN SetStates(c) ELSE hoc[c].got,
                         !.at = IF stops /\ hoc[c].stream # 0
                                THEN Len(streams[hoc[c].stream].emitted)
                                ELSE hoc[c].at]]
  /\ UNCHANGED <<streams, task, unlinkOps, dirExists, files, hocFrame>>

----------------------------------------------------------------------------
(***************************************************************************)
(* Specifications                                                          *)
(***************************************************************************)
EmptyTable == [g \in {} |-> {}]

\* no file written by a download or an import carries another stat
OnDisk == [mtime |-> 1, size |-> MaxSize]

\* what an earlier run of the application left in the cache directory
InitDisk ==
  /\ dirExists \in BOOLEAN
  /\ files \in [FileNames -> {NoFile, OnDisk}]
  /\ \A n \in FileNames : Present(n) => dirExists /\ n # "f3"

\* any cache directory
InitAnyDisk ==
  /\ dirExists \in BOOLEAN
  /\ files \in [FileNames -> {NoFile} \cup FileStats]
  /\ \A n \in FileNames : Present(n) => dirExists

\* a fresh installation
InitNoDisk ==
  /\ dirExists = FALSE
  /\ files = [n \in FileNames |-> NoFile]

InitEngine ==
  /\ cacheLock = EmptyTable
  /\ cacheObservables = EmptyTable
  /\ streams = <<>>
  /\ task = [t \in TaskIds |-> IdleTask]
  /\ unlinkOps = {}
  /\ ret = NoRet
  /\ issued = [f \in FileNames |-> NoIssue]
  /\ lastCall = [f \in FileNames |-> [c \in Consumers |-> "none"]]
  /\ asked = {}
  /\ subs = [c \in Consumers |-> NoSub]
  /\ reqPath = NoPath
  /\ impPath = NoPath
  /\ unlRet = NoUnlink
  /\ pathRet = NoPathRet
  /\ named = [u \in {} |-> <<>>]
  /\ hoc = [c \in Consumers |-> NoHoc]
  /\ lastStatus = [s \in 1..MaxInstances |-> 0]

Init == InitEngine /\ InitDisk

\* the steps of the pipelines, of the sweeps and of their unlinks
NextSettling ==
  \/ \E s \in 1..MaxInstances : StatReturns(s)
  \/ \E t \in StreamTasks :
       \/ FetchExists(t)
       \/ FetchMkdir(t)
       \/ FetchMkdirFails(t)
       \/ FetchStat(t)
       \/ \E partial \in BOOLEAN : DownloadThrows(t, partial)
       \/ CleanupExists(t)
       \/ CleanupUnlink(t)
       \/ CleanupUnlinkFails(t)
  \/ \E t \in TaskIds :
       \/ PruneExists(t)
       \/ PruneReadDir(t)
       \/ PruneReadDirFails(t)
  \/ \E o \in unlinkOps : SweepUnlinkExists(o)
  \/ \E o \in unlinkOps : SweepUnlinkOk(o)
  \/ \E o \in unlinkOps : SweepUnlinkFails(o)

NextPipeline ==
  \/ NextSettling
  \/ \E t \in StreamTasks, statusCode \in Statuses : DownloadReturns(t, statusCode)

\* the same steps with the status codes of the downloads recorded
NextPipelineRec ==
  \/ NextSettling
  \/ \E t \in StreamTasks, statusCode \in Statuses : DownloadReturnsRec(t, statusCode)

\* the calls of lockCacheFile, unlockCacheFile and observable by the consumers ids
NextConsumers(ids) ==
  \/ \E f \in CallNames, c \in ids : LockCall(f, c)
  \/ \E f \in CallNames, c \in ids : UnlockCall(f, c)
  \/ \E u \in CallUrls \ {""}, c \in ids, st \in {"immutable", "mutable"} :
       ObservableCall(u, c, st, NoName)

\* the calls of getLocalFilePathFromUrl and unlink, and what they leave pending
NextCalls ==
  \/ \E u \in CallUrls \ {""} : RequestCall(u)
  \/ RequestReturns
  \/ \E path \in CallNames \cup {""} : UnlinkCall(path)
  \/ UnlinkExists
  \/ UnlinkOk
  \/ UnlinkFails

\* the mtime arguments of cacheLocalFile
TouchMtimes == {1}

\* the calls of cacheLocalFile and what they leave pending
NextImport ==
  \/ \E u \in CallUrls \ {""} : ImportCall(u)
  \/ \E localExists \in BOOLEAN : ImportLocalExists(localExists)
  \/ ImportDirExists
  \/ ImportStepFails
  \/ ImportMkdir
  \/ ImportRmExists
  \/ ImportRmUnlink
  \/ ImportCopy
  \/ \E mtime \in TouchMtimes : ImportTouch(mtime)
  \/ ImportCatchExists
  \/ ImportCatchUnlink
  \/ ImportCatchUnlinkFails

\* the same calls of cacheLocalFile with the returned path recorded
NextImportRec ==
  \/ \E u \in CallUrls \ {""} : ImportCall(u)
  \/ \E localExists \in BOOLEAN : ImportLocalExistsRec(localExists)
  \/ ImportDirExists
  \/ ImportStepFails
  \/ ImportMkdir
  \/ ImportRmExists
  \/ ImportRmUnlink
  \/ ImportCopy
  \/ \E mtime \in TouchMtimes : ImportTouchRec(mtime)
  \/ ImportCatchExistsRec
  \/ ImportCatchUnlinkRec
  \/ ImportCatchUnlinkFails

\* the cache engine under its consumers
Next == NextConsumers(Consumers) \/ NextCalls \/ NextPipeline

Spec == Init /\ [][Next]_vars

\* the cache engine when every pending native call settles: it resolves or it
\* rejects
SpecLive == Init /\ [][Next]_vars /\ WF_vars(NextPipeline)

\* the cache engine under consumers that subscribe to the instances they get
NextSubscribing ==
  \/ \E f \in CallNames, c \in Consumers : LockCall(f, c)
  \/ \E f \in CallNames, c \in Consumers : UnlockCall(f, c)
  \/ \E u \in CallUrls \ {""}, c \in Consumers, st \in {"immutable", "mutable"} :
       SubscribeCall(u, c, st)
  \/ NextCalls
  \/ NextPipeline

SpecSubscribing == Init /\ [][NextSubscribing]_vars

\* the cache engine with what getLocalFilePathFromUrl returns recorded
NextRequesting ==
  \/ NextConsumers(Consumers)
  \/ \E u \in CallUrls \ {""} : RequestCall(u)
  \/ RequestReturnsRec
  \/ \E path \in CallNames \cup {""} : UnlinkCall(path)
  \/ UnlinkExists
  \/ UnlinkOk
  \/ UnlinkFails
  \/ NextPipeline

SpecRequesting == Init /\ [][NextRequesting]_vars

\* the cache engine with cacheLocalFile, under one consumer
OneConsumer == {"c1"}

NextWithImport == NextConsumers(OneConsumer) \/ NextCalls \/ NextImport \/ NextPipeline

SpecImport == Init /\ [][NextWithImport]_vars

\* cacheLocalFile next to one consumer and the pipelines of its instances
NextImporting == NextConsumers(OneConsumer) \/ NextImportRec \/ NextPipeline

SpecImporting == Init /\ [][NextImporting]_vars

\* unlink() with its results recorded, next to one consumer and the pipelines
\* of its instances
NextUnlinking ==
  \/ NextConsumers(OneConsumer)
  \/ \E path \in CallNames \cup {""} : UnlinkCall(path)
  \/ UnlinkExistsRec
  \/ UnlinkOkRec
  \/ UnlinkFailsRec
  \/ NextPipeline

SpecUnlinking == Init /\ [][NextUnlinking]_vars

\* the paths the callers pass, and those they lock
PathNames == {"", "f1"} \cup DOMAIN OddPaths
LockPaths == {"f1", "../f1", "f1/../../f2"}

\* calls with any of these paths, next to one consumer that locks them; the
\* pipelines of the instances stay at their first provider call
NextPaths ==
  \/ \E p \in LockPaths, c \in OneConsumer : LockCall(p, c)
  \/ \E p \in LockPaths, c \in OneConsumer : UnlockCall(p, c)
  \/ \E p \in PathNames, c \in OneConsumer : ObservableCallAt(p, c)
  \/ \E p \in PathNames : ExistsCallAt(p)
  \/ \E p \in PathNames : FetchFileCallAt(p)
  \/ \E p \in PathNames : UnlinkCallAt(p)
  \/ UnlinkExists
  \/ UnlinkOk
  \/ UnlinkFails

SpecPaths == Init /\ [][NextPaths]_vars

\* getFileNameFromUrl called again and again while a consumer locks and unlocks
NextNames ==
  \/ \E u \in UrlStrings : GetFileNameCall(u)
  \/ \E f \in CallNames, c \in OneConsumer : LockCall(f, c)
  \/ \E f \in CallNames, c \in OneConsumer : UnlockCall(f, c)

SpecNames == Init /\ [][NextNames]_vars

\* components that mount and unmount while the pipelines of their instances run
NextHoc ==
  \/ \E c \in Consumers, st \in {"immutable", "mutable"} :
       componentDidMount(c, HocUrl, st)
  \/ \E c \in Consumers : componentWillUnmount(c)
  \/ NextPipeline

SpecHoc == Init /\ [][NextHoc]_vars

\* a component whose source uri changes between mount and unmount, next to a
\* second one that mounts and unmounts with the url of the first kind, while
\* the pipelines of their instances run; source.cache is left out of the
\* props, so that the strategy is the default
NextSource ==
  \/ \E u \in SourceUris : componentDidMount("c1", u, "immutable")
  \/ \E u \in SourceUris : componentDidUpdate("c1", u, "immutable")
  \/ componentDidMount("c2", HocUrl, "immutable")
  \/ \E c \in Consumers : componentWillUnmount(c)
  \/ NextPipeline

SpecSource == Init /\ [][NextSource]_vars

\* one consumer and the pipelines of its instances, the status codes recorded
NextRevalidating == NextConsumers(OneConsumer) \/ NextPipelineRec

SpecRevalidating == Init /\ [][NextRevalidating]_vars

\* the synchronous calls alone: no pending native call settles
SyncNames == {"f1", "f2"}

\* the arguments (url, cacheStrategy, fileName) the consumers pass to observable()
ObservableArgs ==
  {<<"", "immutable", NoName>>, <<"", "other", NoName>>, <<"", "mutable", "f2">>,
   <<"u1", "other", NoName>>, <<"u1", "other", "f2">>,
   <<"u1", "immutable", NoName>>, <<"u1", "mutable", NoName>>,
   <<"u2", "immutable", NoName>>, <<"u2", "mutable", NoName>>,
   <<"u2", "mutable", "f1">>}

InitCalls == InitEngine /\ InitNoDisk

NextSync ==
  \/ \E f \in SyncNames, c \in Consumers : LockCallRec(f, c)
  \/ \E f \in SyncNames, c \in Consumers : UnlockCallRec(f, c)
  \/ \E a \in ObservableArgs, c \in Consumers : ObservableCallRec(a[1], c, a[2], a[3])

SpecCalls == InitCalls /\ [][NextSync]_vars

\* one consumer that locks, asks and releases again and again while the
\* pipelines of the instances it was given run on
NextRelock ==
  \/ \E f \in CallNames, c \in OneConsumer : LockCallRec(f, c)
  \/ \E f \in CallNames, c \in OneConsumer : UnlockCallRec(f, c)
  \/ \E u \in CallUrls \ {""}, c \in OneConsumer, st \in {"immutable", "mutable"} :
       ObservableCallRec(u, c, st, NoName)
  \/ NextPipeline

SpecRelock == Init /\ [][NextRelock]_vars

\* the same when every pending native call settles
SpecRelockLive == Init /\ [][NextRelock]_vars /\ WF_vars(NextPipeline)

\* pruneCache() called directly on any cache directory while a consumer locks
\* and unlocks
InitPrune == InitEngine /\ InitAnyDisk

NextPrune ==
  \/ \E f \in FileNames, c \in OneConsumer : LockCall(f, c)
  \/ \E f \in FileNames, c \in OneConsumer : UnlockCall(f, c)
  \/ PruneCall(PruneTask)
  \/ PruneExists(PruneTask)
  \/ PruneReadDir(PruneTask)
  \/ PruneReadDirFails(PruneTask)
  \/ \E o \in unlinkOps : SweepUnlinkExists(o)
  \/ \E o \in unlinkOps : SweepUnlinkOk(o)
  \/ \E o \in unlinkOps : SweepUnlinkFails(o)

SpecPrune == InitPrune /\ [][NextPrune]_vars

----------------------------------------------------------------------------
(***************************************************************************)
(* Properties of the lock table and of the registry (SpecCalls)            *)
(***************************************************************************)
\* the calls of observable() in SpecCalls that pass the url and strategy checks
CheckedArgs == {a \in ObservableArgs : a[1] # "" /\ a[2] \in {"immutable", "mutable"}}

\* C1: two calls of observable() for one filename, made by consumers that hold
\* its lock, with the lock set of the filename non-empty at every moment
\* between them, return the identical stream instance, and the second call
\* starts no stat and no download: it leaves the instances and the tasks as
\* they are.
C1_SameInstance ==
  [][\A a \in CheckedArgs, c \in Consumers :
       LET fileName == TargetName(a[1], a[3]) IN
       (/\ c \in LockSet(fileName)
        /\ issued[fileName].stream # 0
        /\ ObservableCallRec(a[1], c, a[2], a[3]))
       => /\ ret'.kind = "stream"
          /\ ret'.stream = issued[fileName].stream
          /\ streams' = streams
          /\ task' = task
          /\ unlinkOps' = unlinkOps]_vars

\* C1, reached: a second call for a filename held by two consumers has returned
\* the instance the first call returned.
C1_Reached ==
  \E f \in SyncNames :
    /\ issued[f].calls = 2
    /\ ret.kind = "stream" /\ ret.fileName = f /\ ret.stream = issued[f].stream
    /\ LockSet(f) = Consumers

\* C2: observable() with a non-empty url and a valid strategy, called by a
\* consumer that holds no lock on the filename, throws the lock-required error,
\* also when other consumers hold the filename, and changes neither the
\* registry nor the lock table nor the instances, tasks and disk.
C2_LockRequired ==
  [][\A a \in CheckedArgs, c \in Consumers :
       (/\ c \notin LockSet(TargetName(a[1], a[3]))
        /\ ObservableCallRec(a[1], c, a[2], a[3]))
       => /\ ret'.kind = "lockRequired"
          /\ UNCHANGED <<cacheLock, cacheObservables, streams, task, unlinkOps,
                         dirExists, files>>]_vars

\* C2, reached: the call was refused although another consumer holds the
\* filename and has a live instance for it.
C2_Reached ==
  /\ ret.kind = "lockRequired"
  /\ LockSet(ret.fileName) # {}
  /\ ret.componentId \notin LockSet(ret.fileName)
  /\ ret.fileName \in DOMAIN cacheObservables

\* C4: the lock table maps no filename to an empty set of consumers: a
\* filename is a key exactly while a consumer holds it, so the release of the
\* last holder has removed the key.
C4_NoEmptyLockSet == \A f \in DOMAIN cacheLock : cacheLock[f] # {}

\* C4, reached: a filename that had a holder (an instance was created for it)
\* is no key of the table after its holders released it.
C4_Reached ==
  \E s \in DOMAIN streams :
    /\ streams[s].fileName \notin DOMAIN cacheLock
    /\ \E c \in Consumers : lastCall[streams[s].fileName][c] = "unlock"

\* the consumers whose latest lock-table call on a filename was lockCacheFile
LatestLockers(f) == {c \in Consumers : lastCall[f][c] = "lock"}

\* the lock set of every filename is the set of its latest lockers
C5_LockSetIsLatestLockers == \A f \in FileNames : LockSet(f) = LatestLockers(f)

\* a release by a consumer that holds no lock on the filename changes nothing
C5_ReleaseByNonHolder ==
  \A f \in SyncNames, c \in Consumers :
    (c \notin LockSet(f) /\ UnlockCallRec(f, c))
    => UNCHANGED <<cacheLock, cacheObservables, streams, task>>

\* C5: after any sequence of lockCacheFile and unlockCacheFile calls the lock
\* set of a filename is the set of consumers whose latest call on it was
\* lockCacheFile, and a release by a consumer that holds no lock on the
\* filename changes neither the lock table nor the registry nor an instance.
C5_LockSets ==
  /\ C5_LockSetIsLatestLockers
  /\ [][C5_LockSetIsLatestLockers' /\ C5_ReleaseByNonHolder]_vars

\* C5, reached: of two holders one has released, the other still holds the
\* filename and its instance is still registered.
C5_Reached ==
  \E f \in SyncNames :
    /\ lastCall[f]["c1"] = "unlock"
    /\ lastCall[f]["c2"] = "lock"
    /\ LockSet(f) = {"c2"}
    /\ f \in DOMAIN cacheObservables

----------------------------------------------------------------------------
(***************************************************************************)
(* The registry under the whole API (SpecImport)                           *)
(***************************************************************************)
\* C3: under every interleaving of lockCacheFile, unlockCacheFile, observable,
\* getLocalFilePathFromUrl, cacheLocalFile and unlink, a filename has a
\* registry entry only while its lock set is non-empty: the step that empties
\* the lock set has removed the entry.
C3_RegistryOnlyWhileLocked == \A f \in DOMAIN cacheObservables : LockSet(f) # {}

\* C3, reached: an instance was created and registered, and after the release
\* of the last lock neither a lock nor a registry entry is left.
C3_Reached ==
  /\ streams # <<>>
  /\ cacheObservables = EmptyTable
  /\ cacheLock = EmptyTable

----------------------------------------------------------------------------
(***************************************************************************)
(* The sweep (SpecPrune)                                                   *)
(***************************************************************************)
\* C6: a sweep never removes a file from disk at a moment when its filename is
\* locked, also when the lock was acquired after the sweep listed the
\* directory or after it selected the entry.
C6_NoLockedFileRemoved ==
  [][\A n \in FileNames : (Present(n) /\ ~Present(n)') => LockSet(n) = {}]_vars

\* C7: pruneCache issues no delete for an entry whose filename has a non-empty
\* lock set when the loop examines it; the loop runs within the turn that
\* receives the listing, so the lock table of that turn decides.
C7_NoDeleteIssuedForLocked ==
  [][\A o \in unlinkOps' \ unlinkOps : o.phase = "exists" => LockSet(o.name) = {}]_vars

\* the summed size of the files of a set
RECURSIVE SizeOf(_)
SizeOf(names) ==
  IF names = {} THEN 0
  ELSE LET n == CHOOSE x \in names : TRUE IN files[n].size + SizeOf(names \ {n})

\* the files in the cache directory, and those with an empty lock set
Listed == {n \in FileNames : Present(n)}
Unlocked == {n \in Listed : LockSet(n) = {}}

\* C7, reached: a sweep has resolved and left the cache above the budget,
\* every file that remains being locked.
C7_Reached ==
  /\ task[PruneTask].pc = "done"
  /\ SizeOf(Listed) > cachePruneTriggerLimit
  /\ Unlocked = {}

\* the turn of pruneCache that receives the listing and pushes the unlinks
SweepSelects ==
  task[PruneTask].pc = "readDir" /\ task'[PruneTask].pc \in {"done", "pruneWait"}

\* the entries a set of unlinks is for
Selected(ops) == {o.name : o \in ops}

\* picked is what an oldest-first pass over the unlocked entries takes to cover
\* the overflow: no entry is picked when the listing is within the budget;
\* otherwise only unlocked entries are picked, none of them younger than an
\* unlocked entry that is kept, they cover the overflow unless the unlocked
\* entries run out, and the pass stopped as soon as the overflow was covered
GreedyOldestFirst(picked) ==
  LET overflow == SizeOf(Listed) - cachePruneTriggerLimit IN
  IF overflow <= 0 THEN picked = {}
  ELSE /\ picked \subseteq Unlocked
       /\ \A p \in picked, q \in Unlocked \ picked : files[p].mtime <= files[q].mtime
       /\ SizeOf(picked) >= overflow \/ picked = Unlocked
       /\ picked # {} =>
            \E p \in picked :
              /\ \A r \in picked : files[r].mtime <= files[p].mtime
              /\ SizeOf(picked \ {p}) < overflow
       /\ Listed = Unlocked => SizeOf(Listed) - SizeOf(picked) <= cachePruneTriggerLimit

\* C8: when the listing exceeds the budget, pruneCache issues deletes for
\* exactly the unlocked entries taken in ascending modification-time order
\* until their summed size reaches total minus budget or the unlocked entries
\* run out; skipped locked entries do not reduce the overflow, and with no
\* locked entry the remaining total is within the budget.
C8_GreedyOldestFirst ==
  [][SweepSelects => GreedyOldestFirst(Selected(unlinkOps' \ unlinkOps))]_vars

\* C8, reached: a sweep waits for the unlink of an unlocked entry it selected,
\* having kept a younger unlocked entry and skipped an older locked one.
C8_Reached ==
  /\ task[PruneTask].pc = "pruneWait"
  /\ \E o \in unlinkOps, kept \in Unlocked \ Selected(unlinkOps), skipped \in Listed \ Unlocked :
       /\ o.phase = "exists"
       /\ o.name \in Unlocked
       /\ files[o.name].mtime < files[kept].mtime
       /\ files[skipped].mtime < files[o.name].mtime

----------------------------------------------------------------------------
(***************************************************************************)
(* The pipeline of a stream on an existing file (SpecImport, Spec)         *)
(***************************************************************************)
\* the paths the pipeline of instance s has emitted, in order
Produced(s) ==
  LET prod == SelectSeq(streams[s].emitted, LAMBDA e : e.by = "prod")
  IN [i \in DOMAIN prod |-> prod[i].path]

\* instance s was created with the strategy and its stat found the file
ServesExisting(s, cacheStrategy) ==
  streams[s].strategy = cacheStrategy /\ streams[s].stat # 0

\* C9 as stated: a stream created with strategy immutable whose stat finds the
\* file emits exactly one result, the local file path, and issues no download.
C9_ImmutableEmitsOnce ==
  \A s \in DOMAIN streams :
    ServesExisting(s, "immutable") =>
      /\ Len(streams[s].emitted) = 1
      /\ streams[s].emitted[1].path = LocalPath(streams[s].fileName)
      /\ streams[s].downloads = <<>>

\* C9, amended: the pipeline of a stream created with strategy immutable whose
\* stat finds the file emits exactly one result, the local file path, ends
\* there and issues no download, whatever unlink() and cacheLocalFile()
\* publish on the instance besides.
C9_ImmutablePipelineEmitsOnce ==
  \A s \in DOMAIN streams :
    ServesExisting(s, "immutable") =>
      /\ Produced(s) = <<LocalPath(streams[s].fileName)>>
      /\ task[<<"stream", s>>].pc = "done"
      /\ streams[s].downloads = <<>>

\* C9, reached: an immutable instance served the existing file, and unlink()
\* then gave its subscribers a second result.
C9_Reached ==
  \E s \in DOMAIN streams :
    /\ ServesExisting(s, "immutable")
    /\ streams[s].emitted = <<[path |-> LocalPath(streams[s].fileName), by |-> "prod"],
                              [path |-> NullPath, by |-> "unlink"]>>

\* C10 as stated: every observable() call with strategy mutable for a file on
\* disk results in exactly one conditional download: once the pipeline of the
\* instance that served the call has ended, one download with an
\* if-modified-since header was issued.
C10_EveryMutableCallDownloads ==
  \A s \in asked :
    (streams[s].stat # 0 /\ task[<<"stream", s>>].pc \in {"done", "error"}) =>
      /\ Len(streams[s].downloads) = 1
      /\ streams[s].downloads[1] # 0

\* C10, amended: a stream created with strategy mutable whose stat finds the
\* file issues at most one download, carrying the if-modified-since of the
\* mtime its stat saw; it issues that download unless the directory check, the
\* sweep or the mkdir before it fails, and then its pipeline ends with a null
\* path or an error.
C10_MutableStreamDownloadsOnce ==
  \A s \in DOMAIN streams :
    ServesExisting(s, "mutable") =>
      /\ streams[s].downloads \in {<<>>, <<streams[s].stat>>}
      /\ task[<<"stream", s>>].pc = "download" => streams[s].downloads # <<>>
      /\ (task[<<"stream", s>>].pc = "done" /\ streams[s].downloads = <<>>) =>
            Produced(s) = <<LocalPath(streams[s].fileName), NullPath>>

\* C10, reached: a mutable instance served the existing file, issued its one
\* conditional download and ended.
C10_Reached ==
  \E s \in DOMAIN streams :
    /\ ServesExisting(s, "mutable")
    /\ task[<<"stream", s>>].pc = "done"
    /\ streams[s].downloads = <<streams[s].stat>>
    /\ s \in asked

----------------------------------------------------------------------------
(***************************************************************************)
(* The outcomes of the download (Spec)                                     *)
(***************************************************************************)
\* the pipeline of instance s has ended without an error
Ended(s) == task[<<"stream", s>>].pc = "done"

MissingAtStat(s) == streams[s].stat = 0 /\ task[<<"stream", s>>].pc # "stat"

\* the pipeline of instance s has ended, with or without an error
Over(s) == task[<<"stream", s>>].pc \in {"done", "error"}

\* C12 as stated: a stream whose stat finds no file issues exactly one
\* download, without a revalidation header, and emits exactly one result, a
\* non-null path if the download returns 200 and a null path otherwise.
C12_MissingFileOneDownloadOneResult ==
  \A s \in DOMAIN streams :
    (MissingAtStat(s) /\ Over(s)) =>
      /\ streams[s].downloads = <<0>>
      /\ Produced(s) \in {<<LocalPath(streams[s].fileName)>>, <<NullPath>>}

\* what holds of an instance whose stat found no file: at most one download,
\* without a revalidation header, issued once fetchFile's stat has settled, and
\* at most one result, which is preceded by that download when it is a path
MissingFileFetch(s) ==
  MissingAtStat(s) =>
    /\ streams[s].downloads \in {<<>>, <<0>>}
    /\ task[<<"stream", s>>].pc = "download" => streams[s].downloads = <<0>>
    /\ Produced(s) \in {<<>>, <<LocalPath(streams[s].fileName)>>, <<NullPath>>}
    /\ Produced(s) = <<LocalPath(streams[s].fileName)>> => streams[s].downloads = <<0>>

\* a download that returns 200 ends the pipeline with the path as its result,
\* and every other result of the pipeline is the null path
MissingFileResult(s) ==
  LET t == <<"stream", s>> IN
  MissingAtStat(s) =>
    /\ DownloadReturns(t, 200) =>
          Ended(s)' /\ Produced(s)' = <<LocalPath(streams[s].fileName)>>
    /\ (Produced(s)' # Produced(s) /\ ~DownloadReturns(t, 200)) =>
          Produced(s)' = <<NullPath>>

\* C12, amended: the pipeline of a stream whose stat finds no file issues at
\* most one download, without a revalidation header, and exactly one once the
\* directory check, the sweep or the mkdir and fetchFile's stat have passed;
\* it emits at most one result, the non-null path when the download returns
\* 200 and a null path in every other case in which it emits.
C12_MissingFileAtMostOne ==
  /\ \A s \in DOMAIN streams : MissingFileFetch(s)
  /\ [][\A s \in DOMAIN streams : MissingFileFetch(s)' /\ MissingFileResult(s)]_vars

\* C12, reached: the stat found no file, the one download returned a status
\* other than 200, and the pipeline ended with the null path as its result.
C12_Reached ==
  \E s \in DOMAIN streams :
    /\ MissingAtStat(s)
    /\ Ended(s)
    /\ streams[s].downloads = <<0>>
    /\ streams[s].emitted = <<[path |-> NullPath, by |-> "prod"]>>
    /\ ~Present(streams[s].fileName)

\* the download of task t, for a file fetchFile's stat did not find, returned a
\* status other than 200 or raised, and catchError is cleaning up
FailedFirstDownload(t) ==
  /\ task[t].pc \in {"cleanupExists", "cleanupUnlink"}
  /\ ~task[t].fstat
  /\ streams[t[2]].downloads # <<>>

\* C13: a fetch of a file that does not yet exist whose download returns a
\* status other than 200, or raises, ends with no file at the target path and
\* with the null path as its single result, and with no error.
C13_FailedFetchEndsNull ==
  [][\A t \in StreamTasks :
       (FailedFirstDownload(t) /\ task'[t].pc \in {"done", "error"}) =>
         /\ task'[t].pc = "done"
         /\ Produced(t[2])' = Append(Produced(t[2]), NullPath)
         /\ files'[task[t].fileName] = NoFile]_vars

----------------------------------------------------------------------------
(***************************************************************************)
(* What a stream delivers in the end (SpecLive)                            *)
(***************************************************************************)
\* instance s has given its subscribers a result
HasEmitted(s) == s \in DOMAIN streams /\ streams[s].emitted # <<>>

\* C14: every stream created by observable() eventually emits at least one
\* result, whatever the stat, the sweep, the download and the cleanup delete
\* come to, provided every native call settles.
C14_EventuallyEmits ==
  \A s \in 1..MaxStreams : (s \in DOMAIN streams) ~> HasEmitted(s)

----------------------------------------------------------------------------
(***************************************************************************)
(* The end of a pipeline and the subject (Spec)                            *)
(***************************************************************************)
\* C15 as stated: after its last production emission the stream returned by
\* observable() signals completion to its subscribers.
C15_CompletesAfterLastEmission ==
  \A s \in DOMAIN streams : Ended(s) => streams[s].completed

\* no instance has signalled completion
NoneCompleted == \A s \in DOMAIN streams : ~streams[s].completed

\* an ended pipeline emits nothing and downloads nothing further, and what
\* unlink() publishes for a registered filename reaches its instance
EndedButOpen ==
  /\ \A s \in DOMAIN streams :
       Over(s) => /\ Produced(s)' = Produced(s)
                  /\ streams'[s].downloads = streams[s].downloads
  /\ \A f \in DOMAIN cacheObservables :
       (task[UnlinkTask].fileName = f /\ UnlinkOk) =>
         streams'[cacheObservables[f]].emitted =
           Append(streams[cacheObservables[f]].emitted,
                  [path |-> NullPath, by |-> "unlink"])

\* C15, amended: after its last production emission the pipeline of the stream
\* ends, emitting and downloading nothing further, but the stream returned by
\* observable() signals no completion: it stays open and, while registered,
\* delivers what unlink() publishes.
C15_PipelineEndsSubjectStaysOpen ==
  /\ NoneCompleted
  /\ [][NoneCompleted' /\ EndedButOpen]_vars

\* C15, reached: a pipeline that fetched a missing file has ended with its one
\* result, and the open subject then delivered the null of an unlink().
C15_Reached ==
  \E s \in DOMAIN streams :
    /\ MissingAtStat(s)
    /\ Ended(s)
    /\ ~streams[s].completed
    /\ streams[s].emitted = <<[path |-> LocalPath(streams[s].fileName), by |-> "prod"],
                              [path |-> NullPath, by |-> "unlink"]>>

----------------------------------------------------------------------------
(***************************************************************************)
(* Replay to late subscribers (SpecSubscribing)                            *)
(***************************************************************************)
\* C16: a subscriber that joins a live stream after it has emitted receives
\* every emission made so far on that instance, in the original order, and
\* then every later one: at every moment what it has been handed is all the
\* instance has emitted.
C16_LateSubscriberSeesAll ==
  \A c \in Consumers :
    subs[c].stream # 0 => Received(c) = streams[subs[c].stream].emitted

\* C16, reached: a consumer subscribed to an instance that had emitted two
\* values, and the instance has emitted a further one since.
C16_Reached ==
  \E c \in Consumers :
    /\ subs[c].stream # 0
    /\ subs[c].at = 2
    /\ Len(streams[subs[c].stream].emitted) = 3

----------------------------------------------------------------------------
(***************************************************************************)
(* Release of the last lock and a fresh request (SpecRelock)               *)
(***************************************************************************)
\* the instances created so far for a filename
InstancesOf(f) == {s \in DOMAIN streams : streams[s].fileName = f}

\* C17: once the lock set of a filename has become empty, the next call of
\* observable() for it under a fresh lock returns a new instance, different
\* from every instance created before, with nothing to replay, whose pipeline
\* starts at the stat.
C17_FreshInstanceAfterRelease ==
  [][\A u \in CallUrls \ {""}, c \in OneConsumer, st \in {"immutable", "mutable"} :
       LET f == getFileNameFromUrl(u) IN
       (/\ InstancesOf(f) # {}
        /\ issued[f].stream = 0
        /\ c \in LockSet(f)
        /\ ObservableCallRec(u, c, st, NoName))
       => /\ ret'.kind = "stream"
          /\ ret'.stream \notin DOMAIN streams
          /\ cacheObservables'[f] = ret'.stream
          /\ streams'[ret'.stream] = NewStream(f, st)
          /\ task'[<<"stream", ret'.stream>>].pc = "stat"
          /\ \A s \in DOMAIN streams : streams'[s] = streams[s]]_vars

\* C17, reached: the first instance of a filename has emitted and was torn
\* down, and a second instance is registered, has emitted nothing yet and is
\* at its stat.
C17_Reached ==
  \E f \in CallNames :
    /\ InstancesOf(f) = {1, 2}
    /\ streams[1].emitted # <<>>
    /\ f \in DOMAIN cacheObservables /\ cacheObservables[f] = 2
    /\ ret.kind = "stream" /\ ret.stream = 2
    /\ streams[2].emitted = <<>>
    /\ task[<<"stream", 2>>].pc = "stat"

\* the pipelines with a download in flight for a filename
Downloading(f) ==
  {t \in StreamTasks : task[t].pc = "download" /\ task[t].fileName = f}

\* C18: under every interleaving of lockCacheFile, unlockCacheFile and
\* observable calls, release of the last lock and re-acquisition during a
\* download included, at most one download started by the resolution protocol
\* is in flight for a filename.
C18_OneDownloadInFlight ==
  \A f \in FileNames : Cardinality(Downloading(f)) <= 1

----------------------------------------------------------------------------
(***************************************************************************)
(* getLocalFilePathFromUrl (SpecRequesting)                                *)
(***************************************************************************)
\* the request id holds no lock
RequestLockFree == \A f \in FileNames : RequestId \notin LockSet(f)

\* the call up to its await locks the filename under the request id and asks
\* with strategy immutable
RequestAsksImmutable ==
  \A u \in CallUrls \ {""} :
    RequestCall(u) =>
      LET f == getFileNameFromUrl(u) IN
      /\ RequestLockFree
      /\ LockSet(f)' = LockSet(f) \cup {RequestId}
      /\ f \in DOMAIN cacheObservables'
      /\ task'[RequestTask].sub = cacheObservables'[f]
      /\ f \notin DOMAIN cacheObservables =>
            streams'[cacheObservables'[f]] = NewStream(f, "immutable")

\* the return hands back the path of the first value of the instance and
\* releases the lock: the locks of the others stay, and a filename nobody else
\* holds loses its registry entry
RequestReleases ==
  RequestReturnsRec =>
    LET sub == task[RequestTask].sub IN
    /\ reqPath' = streams[sub].emitted[1].path
    /\ RequestLockFree'
    /\ \A f \in FileNames : LockSet(f)' = LockSet(f) \ {RequestId}
    /\ \A f \in FileNames :
         (RequestId \in LockSet(f) /\ LockSet(f) = {RequestId}) =>
           f \notin DOMAIN cacheObservables'

\* C19: getLocalFilePathFromUrl acquires a lock under a fresh request id,
\* asks with strategy immutable, returns the path of the first emission it
\* receives and has released the lock when it returns: the request id is in
\* no lock set, the locks of other consumers are unchanged, and the registry
\* entry is gone if no other consumer holds the filename.
C19_RequestLocksAndReleases ==
  [][/\ RequestAsksImmutable
     /\ RequestReleases
     /\ task'[RequestTask].pc = "idle" => RequestLockFree']_vars

\* C19, reached: a call that joined an instance with two values has returned
\* the path of the first one, while another consumer keeps the filename
\* locked and registered.
C19_Reached ==
  \E s \in DOMAIN streams :
    /\ task[RequestTask].pc = "idle"
    /\ Len(streams[s].emitted) = 2
    /\ streams[s].emitted[1].path # streams[s].emitted[2].path
    /\ reqPath = streams[s].emitted[1].path
    /\ RequestLockFree
    /\ LockSet(streams[s].fileName) # {}
    /\ streams[s].fileName \in DOMAIN cacheObservables

----------------------------------------------------------------------------
(***************************************************************************)
(* cacheLocalFile (SpecImporting)                                          *)
(***************************************************************************)
\* C20: when cacheLocalFile succeeds (the local file exists, the copy or move
\* and the touch succeed) the file is at the cache path named for the URL, the
\* call returns that path, and a live stream of the filename emits a result
\* with the local path of the file; nothing else is told anything.
C20_ImportPublishes ==
  [][\A mtime \in TouchMtimes :
       ImportTouchRec(mtime) =>
         LET f == task[ImportTask].fileName IN
         /\ files'[f] # NoFile
         /\ impPath' = CachePath(f)
         /\ \A s \in DOMAIN streams :
              streams'[s].emitted =
                IF f \in DOMAIN cacheObservables /\ cacheObservables[f] = s
                THEN Append(streams[s].emitted,
                            [path |-> LocalPath(f), by |-> "import"])
                ELSE streams[s].emitted]_vars

\* C20, reached: cacheLocalFile has returned the cache path, the file is on
\* disk, and the registered instance, which had emitted a null path for a
\* failed fetch, has emitted the local path after it.
C20_Reached ==
  \E f \in CallNames :
    /\ impPath = CachePath(f)
    /\ task[ImportTask].pc = "idle"
    /\ Present(f)
    /\ f \in DOMAIN cacheObservables
    /\ streams[cacheObservables[f]].emitted =
         <<[path |-> NullPath, by |-> "prod"], [path |-> LocalPath(f), by |-> "import"]>>

\* C21: cacheLocalFile called with a local path that does not exist returns a
\* result with path null and changes nothing: no sweep is started, no
\* directory is created, no file is deleted, copied or moved, and no stream
\* emits; from the call to its return only the call itself is pending.
C21_MissingLocalFileNoEffect ==
  [][/\ (\E u \in CallUrls \ {""} : ImportCall(u)) =>
          UNCHANGED <<cacheLock, cacheObservables, streams, unlinkOps, dirExists, files>>
     /\ ImportLocalExistsRec(FALSE) =>
          /\ impPath' = NullPath
          /\ task' = [task EXCEPT ![ImportTask] = IdleTask]
          /\ UNCHANGED <<cacheLock, cacheObservables, streams, unlinkOps, dirExists,
                         files>>]_vars

\* C21, reached: with nothing on disk and no cache directory, cacheLocalFile
\* has returned path null while the consumer's instance, registered and ended,
\* was told nothing.
C21_Reached ==
  /\ impPath = NullPath
  /\ task[ImportTask].pc = "idle"
  /\ ~dirExists
  /\ \A n \in FileNames : ~Present(n)
  /\ \E f \in DOMAIN cacheObservables :
       /\ Over(cacheObservables[f])
       /\ \A i \in DOMAIN streams[cacheObservables[f]].emitted :
            streams[cacheObservables[f]].emitted[i].by = "prod"

----------------------------------------------------------------------------
(***************************************************************************)
(* unlink (SpecUnlinking)                                                  *)
(***************************************************************************)
\* the call of unlink() has returned in this step
UnlinkReturns == task[UnlinkTask].pc # "idle" /\ task'[UnlinkTask].pc = "idle"

\* C22: unlink(path) for a path inside the base directory resolves to true
\* when the target was deleted and when there was none, so that a second
\* unlink of a deleted path gives true again; it resolves to false when the
\* delete fails, and it raises in none of these cases.
C22_UnlinkResult ==
  [][LET path == task[UnlinkTask].fileName IN
     /\ (UnlinkExistsRec /\ ~TargetPresent(path)) =>
          unlRet'.path = path /\ unlRet'.result = "true"
     /\ UnlinkOkRec =>
          /\ unlRet'.path = path /\ unlRet'.result = "true"
          /\ IF path = "" THEN ~dirExists' ELSE files'[path] = NoFile
     /\ UnlinkFailsRec =>
          /\ unlRet'.path = path /\ unlRet'.result = "false"
          /\ UNCHANGED <<dirExists, files, streams>>
     /\ UnlinkReturns => unlRet'.result \in {"true", "false"}]_vars

\* C22, reached: unlink of a filename returned true for the second time in a
\* row, this time finding no file, and the registered instance was told both
\* times.
C22_Reached ==
  \E f \in CallNames :
    /\ unlRet = [path |-> f, result |-> "true", run |-> 2]
    /\ ~Present(f)
    /\ f \in DOMAIN cacheObservables
    /\ LET e == streams[cacheObservables[f]].emitted IN
       /\ Len(e) >= 2
       /\ e[Len(e)].by = "unlink" /\ e[Len(e) - 1].by = "unlink"

----------------------------------------------------------------------------
(***************************************************************************)
(* observable() with an empty url or an unhandled strategy (SpecCalls)     *)
(***************************************************************************)
\* the lock table, the registry, the instances, their tasks and the disk
engineState == <<cacheLock, cacheObservables, streams, task, unlinkOps, dirExists, files>>

EmptyUrlArgs == {a \in ObservableArgs : a[1] = ""}

\* C23: observable() with an empty url returns, under every strategy and every
\* lock state, a stream that emits exactly one result with a null path and
\* then completes; the lock table, the registry and the disk stay as they were.
C23_EmptyUrlOneNullResult ==
  [][\A a \in EmptyUrlArgs, c \in Consumers :
       ObservableCallRec(a[1], c, a[2], a[3]) =>
         /\ ret'.kind = "ofNull"
         /\ Len(EmptyUrlObservable.emitted) = 1
         /\ EmptyUrlObservable.emitted[1].path = NullPath
         /\ EmptyUrlObservable.completed
         /\ UNCHANGED engineState]_vars

\* C23, reached: a consumer holding no lock got the stream of the empty url
\* while another consumer holds a lock and an instance is registered.
C23_Reached ==
  /\ ret.kind = "ofNull"
  /\ \A f \in DOMAIN cacheLock : ret.componentId \notin cacheLock[f]
  /\ DOMAIN cacheLock # {}
  /\ DOMAIN cacheObservables # {}

UnhandledArgs == {a \in ObservableArgs : a[1] # "" /\ a[2] \notin {"immutable", "mutable"}}

\* C24: observable() with a non-empty url and a strategy other than immutable
\* and mutable fails with the unhandled-strategy error, whether or not the
\* caller holds the lock; the lock table, the registry and the disk stay as
\* they were.
C24_UnhandledStrategyFails ==
  [][\A a \in UnhandledArgs, c \in Consumers :
       ObservableCallRec(a[1], c, a[2], a[3]) =>
         /\ ret'.kind = "invalidStrategy"
         /\ UNCHANGED engineState]_vars

\* C24, reached: the call failed on its strategy for a caller that holds the
\* lock on the filename.
C24_Reached ==
  /\ ret.kind = "invalidStrategy"
  /\ HoldsLock(cacheLock, ret.fileName, ret.componentId)

----------------------------------------------------------------------------
(***************************************************************************)
(* _validatePath (SpecPaths)                                               *)
(***************************************************************************)
\* the call stopped at _validatePath: the invalid-path error, no provider call
\* and nothing changed
RefusedAt(op, path) ==
  /\ pathRet' = [op |-> op, path |-> path, outcome |-> "invalidPath", provider |-> 0]
  /\ UNCHANGED engineState

\* C25: exists, unlink, fetchFile and the creation of a stream in observable(),
\* given a path that resolves outside the base directory, fail with the
\* invalid-path error before any provider call and change no state. The
\* paths cacheLocalFile and pruneCache validate are a cache filename and the
\* names of a listing of the base directory: none of them resolves outside.
C25_OutsidePathRefused ==
  [][\A p \in PathNames : Outside(p) =>
       /\ ExistsCallAt(p) => RefusedAt("exists", p)
       /\ FetchFileCallAt(p) => RefusedAt("fetchFile", p)
       /\ UnlinkCallAt(p) => RefusedAt("unlink", p)
       /\ \A c \in OneConsumer :
            (ObservableCallAt(p, c) /\ HoldsLock(cacheLock, p, c)) =>
              RefusedAt("observable", p)
       /\ \A u \in Urls \ {""} : ~Outside(getFileNameFromUrl(u))
       /\ \A f \in FileNames : ~Outside(f)]_vars

\* C25, reached: the holder of the lock on a path outside the base directory
\* asked for its stream and got the invalid-path error.
C25_Reached ==
  /\ pathRet.op = "observable"
  /\ pathRet.outcome = "invalidPath"
  /\ Outside(pathRet.path)
  /\ HoldsLock(cacheLock, pathRet.path, "c1")
  /\ cacheObservables = EmptyTable

----------------------------------------------------------------------------
(***************************************************************************)
(* getFileNameFromUrl (SpecNames)                                          *)
(***************************************************************************)
\* the URL without its query string and its fragment
WithoutQueryAndFragment(url) == upTo(url, {"?", "#"})

HasDot(chars) == \E i \in DOMAIN chars : chars[i] = "."

\* the characters after the last dot
AfterLastDot(chars) ==
  LET last == CHOOSE i \in DOMAIN chars :
                chars[i] = "." /\ \A j \in DOMAIN chars : j > i => chars[j] # "."
  IN SubSeq(chars, last + 1, Len(chars))

NamedAsClaimed ==
  \A u \in DOMAIN named :
    /\ named[u].extension =
         IF HasDot(pathname(u)) THEN AfterLastDot(pathname(u)) ELSE <<"b", "i", "n">>
    /\ \A v \in DOMAIN named :
         (u # v /\ WithoutQueryAndFragment(u) = WithoutQueryAndFragment(v)) =>
           named[u] # named[v]

----------------------------------------------------------------------------
(***************************************************************************)
(* The component after componentWillUnmount (SpecHoc)                      *)
(***************************************************************************)
\* C27: after componentWillUnmount no value of the stream reaches the
\* component: its subscription is over and setState is not called again.
C27_NoSetStateAfterUnmount ==
  [][\A c \in Consumers :
       hoc[c].phase = "unmounted" =>
         /\ ~hoc[c].active
         /\ SetStates(c)' = SetStates(c)]_vars

\* C27, reached: a component got a value, was unmounted, and its instance has
\* emitted another value since.
C27_Reached ==
  \E c \in Consumers :
    /\ hoc[c].phase = "unmounted"
    /\ hoc[c].got >= 1
    /\ Len(streams[hoc[c].stream].emitted) > hoc[c].at

----------------------------------------------------------------------------
(***************************************************************************)
(* The sweep before a download (Spec)                                      *)
(***************************************************************************)
\* the fetchFile of task t was called with an if-modified-since header
Conditional(t) == task[t].hdr # 0

\* C28, as stated: a fetch starts the sweep only when it is not conditional;
\* a conditional fetch of a file that is present never starts it.
C28_SweepOnlyBeforeFirstDownload ==
  [][\A t \in StreamTasks :
       (FetchExists(t) /\ task'[t].pc = "pruneExists") => ~Conditional(t)]_vars

\* C28, amended: a fetch starts the sweep exactly when the cache directory
\* exists at its start, and creates the directory otherwise; a conditional
\* fetch of a file that is present always starts the sweep.
C28_SweepWheneverDirectoryExists ==
  [][\A t \in StreamTasks :
       FetchExists(t) =>
         /\ (task'[t].pc = "pruneExists") = dirExists
         /\ (task'[t].pc = "mkdir") = ~dirExists
         /\ (Conditional(t) /\ Present(task[t].fileName)) =>
              task'[t].pc = "pruneExists"]_vars

\* C28, reached: the sweep of a conditional fetch of a present file is running.
C28_Reached ==
  \E t \in StreamTasks :
    /\ task[t].pc \in {"pruneExists", "pruneReadDir", "pruneWait"}
    /\ Conditional(t)
    /\ Present(task[t].fileName)
    /\ streams[t[2]].strategy = "mutable"

----------------------------------------------------------------------------
(***************************************************************************)
(* A delete of the sweep that fails (SpecPrune)                            *)
(***************************************************************************)
\* C29: when RNFS.unlink rejects for a file the sweep selected, the sweep
\* goes on: its caller still waits for the other deletes, or pruneCache has
\* resolved and its caller continues; the sweep does not fail.
C29_FailedDeleteSwallowed ==
  [][\A o \in unlinkOps :
       (SweepUnlinkFails(o) /\ task[o.owner].pc = "pruneWait") =>
         task'[o.owner].pc \in {"pruneWait", AfterPrune(o.owner)}]_vars

----------------------------------------------------------------------------
(***************************************************************************)
(* A conditional fetch that gets another status (SpecRevalidating)         *)
(***************************************************************************)
\* the conditional fetch of task t, of a file that was there at its stat, gets
\* this status code
Revalidated(t, statusCode) ==
  DownloadReturnsRec(t, statusCode) /\ Conditional(t) /\ task[t].fstat

\* C30, as stated: on a conditional fetch of an existing file a status other
\* than 200 and 304 is a failure: the fetch goes on to delete the file at the
\* target path and to emit the null path.
C30_OtherStatusFails ==
  [][\A t \in StreamTasks, statusCode \in Statuses \ {200, 304} :
       Revalidated(t, statusCode) => task'[t].pc = "cleanupExists"]_vars

\* C30, amended: on a conditional fetch of an existing file every status
\* other than 200, 304 or not, is dropped: the fetch ends, nothing is emitted
\* and the file stays as it is.
C30_OtherStatusDropped ==
  [][\A t \in StreamTasks, statusCode \in Statuses \ {200} :
       Revalidated(t, statusCode) =>
         /\ task'[t].pc = "done"
         /\ streams'[t[2]].emitted = streams[t[2]].emitted
         /\ UNCHANGED files]_vars

\* C30, reached: a conditional fetch got a 404, and its instance has ended with
\* the local path as its only result and the file on disk.
C30_Reached ==
  \E s \in DOMAIN streams :
    /\ lastStatus[s] = 404
    /\ streams[s].strategy = "mutable"
    /\ streams[s].downloads # <<>> /\ streams[s].downloads[1] # 0
    /\ task[<<"stream", s>>].pc = "done"
    /\ Len(streams[s].emitted) = 1
    /\ streams[s].emitted[1].path = LocalPath(streams[s].fileName)
    /\ Present(streams[s].fileName)

----------------------------------------------------------------------------
----------------------------------------------------------------------------
(***************************************************************************)
(* One run of the pipeline per instance (SpecSubscribing)                  *)
(***************************************************************************)
\* the consumers subscribed to instance s
SubscribersOf(s) == {c \in Consumers : subs[c].stream = s}

\* one step of the pipeline of instance s, seen from outside: RNFS.stat is
\* started by the step that creates the instance and by no other, a
\* subscription changes nothing of the instance, a pipeline that is over stays
\* over, and a download is issued only when none has been
RunsOnce(s) ==
  LET t == <<"stream", s>>
  IN
  /\ (s \in DOMAIN streams' /\ s \notin DOMAIN streams) => task'[t].pc = "stat"
  /\ (task'[t].pc = "stat" /\ task[t].pc # "stat") => s \notin DOMAIN streams
  /\ s \in DOMAIN streams =>
       /\ Len(streams'[s].downloads) <= 1
       /\ streams'[s].downloads # streams[s].downloads => streams[s].downloads = <<>>
       /\ SubscribersOf(s)' # SubscribersOf(s) =>
            /\ task'[t] = task[t]
            /\ streams'[s] = streams[s]
       /\ Over(s) =>
            /\ task'[t] = task[t]
            /\ streams'[s].downloads = streams[s].downloads
            /\ Produced(s)' = Produced(s)

\* C32: the stat and fetch protocol of an instance runs once, started by the
\* call of observable() that creates the instance, whatever the number of
\* subscribers and whenever they join; an instance issues at most one download
\* in its lifetime, and a pipeline that has ended, with a null path or
\* otherwise, is never run again.
C32_ProtocolRunsOnce == [][\A s \in 1..MaxInstances : RunsOnce(s)]_vars

\* C32, reached: an instance with two subscribers, one that joined before any
\* result and one that joined after a result, whose single download failed
\* and whose pipeline has ended with a null path.
C32_Reached ==
  \E s \in DOMAIN streams :
    /\ \E c, d \in SubscribersOf(s) : subs[c].at = 0 /\ subs[d].at > 0
    /\ Ended(s)
    /\ Len(streams[s].downloads) = 1
    /\ Produced(s) # <<>>
    /\ Produced(s)[Len(Produced(s))] = NullPath

----------------------------------------------------------------------------
(***************************************************************************)
(* A sweep with nothing to prune (SpecPrune)                               *)
(***************************************************************************)
\* the turn of pruneCache in which await this.exists('') settles
SweepFindsDirectory ==
  task[PruneTask].pc = "pruneExists" /\ task'[PruneTask].pc # "pruneExists"

\* the turn of pruneCache in which RNFS.readDir settles
SweepLists ==
  task[PruneTask].pc = "readDir" /\ task'[PruneTask].pc # "readDir"

\* the call is over in this turn: it has pushed no unlink and waits for none,
\* and the directory, the lock table and the registry are as they were
SweepLeavesAll ==
  /\ task'[PruneTask].pc \in Settled
  /\ unlinkOps' = {}
  /\ UNCHANGED <<dirExists, files, cacheLock, cacheObservables, streams>>

\* C33: pruneCache deletes no file when the cache directory does not exist and
\* when the summed size of the listing is at most the budget, whatever the
\* lock state: it returns with the directory contents, the lock table and the
\* registry unchanged.
C33_NothingToPrune ==
  [][/\ (SweepFindsDirectory /\ ~dirExists) => SweepLeavesAll
     /\ (SweepLists /\ SizeOf(Listed) <= cachePruneTriggerLimit) => SweepLeavesAll]_vars

\* C33, reached: a sweep has resolved on a cache of two unlocked files whose
\* sizes add up to the budget, and both are on disk.
C33_Reached ==
  /\ task[PruneTask].pc = "done"
  /\ Cardinality(Listed) = 2
  /\ Unlocked = Listed
  /\ SizeOf(Listed) = cachePruneTriggerLimit
  /\ unlinkOps = {}

----------------------------------------------------------------------------
(***************************************************************************)
(* A revalidation whose download raises (Spec)                             *)
(***************************************************************************)
\* the pipeline of task t is in the catchError of a fetchFile that was given a
\* revalidation header by a mutable stream, found the file with its own stat
\* and issued its download: the download has raised
RevalidationRaised(t) ==
  /\ task[t].pc \in {"cleanupExists", "cleanupUnlink"}
  /\ Conditional(t)
  /\ task[t].fstat
  /\ streams[t[2]].strategy = "mutable"
  /\ streams[t[2]].downloads # <<>>

\* C34: a download that raises during the conditional revalidation of an
\* existing file, started by a mutable stream whose filename is still locked,
\* does not delete the previously cached file: no step of the failure handling
\* removes the file from disk while the filename is locked.
C34_FailedRevalidationKeepsFile ==
  [][\A t \in StreamTasks :
       (/\ RevalidationRaised(t)
        /\ task'[t] # task[t]
        /\ LockSet(task[t].fileName) # {}
        /\ Present(task[t].fileName)) => files'[task[t].fileName] # NoFile]_vars

----------------------------------------------------------------------------
(***************************************************************************)
(* A call with another strategy than that of the live stream (Spec)        *)
(***************************************************************************)
\* the instance registered for the filename of url was created with another
\* strategy than cacheStrategy
OtherStrategy(url, cacheStrategy) ==
  /\ getFileNameFromUrl(url) \in DOMAIN cacheObservables
  /\ streams[cacheObservables[getFileNameFromUrl(url)]].strategy # cacheStrategy

\* the pipelines are where they were and the instances as they were
PipelinesUntouched ==
  /\ streams' = streams
  /\ \A t \in StreamTasks : task'[t] = task[t]
  /\ UNCHANGED <<cacheObservables, files, dirExists, unlinkOps>>

\* C35: the strategy of a shared stream is that of the observable() call that
\* created it: a later call that coalesces onto the live stream with another
\* strategy, made by a lock holder or by getLocalFilePathFromUrl, is given
\* the registered instance, leaves the instance and its pipeline as they are
\* and starts no stat and no download; an instance created immutable on an
\* existing file downloads nothing, also after it served a mutable call.
C35_StrategyOfCreator ==
  [][/\ \A s \in DOMAIN streams : streams'[s].strategy = streams[s].strategy
     /\ \A u \in CallUrls \ {""}, c \in Consumers, st \in {"immutable", "mutable"} :
          (/\ OtherStrategy(u, st)
           /\ c \in LockSet(getFileNameFromUrl(u))
           /\ ObservableCall(u, c, st, NoName))
          => /\ observableResult(cacheLock, u, c, st, NoName).stream =
                  cacheObservables[getFileNameFromUrl(u)]
             /\ PipelinesUntouched
     /\ \A u \in CallUrls \ {""} :
          (OtherStrategy(u, "immutable") /\ RequestCall(u))
          => /\ task'[RequestTask].sub = cacheObservables[getFileNameFromUrl(u)]
             /\ PipelinesUntouched
     /\ \A s \in asked' :
          ServesExisting(s, "immutable")' => streams'[s].downloads = <<>>]_vars

\* C35, reached: an instance created immutable on an existing file has served
\* a call with strategy mutable and has ended with the local path as its one
\* result and without a download.
C35_Reached ==
  \E s \in asked :
    /\ ServesExisting(s, "immutable")
    /\ Ended(s)
    /\ Produced(s) = <<LocalPath(streams[s].fileName)>>
    /\ streams[s].downloads = <<>>

----------------------------------------------------------------------------
(***************************************************************************)
(* A request after unlink() under a lock (SpecRequesting)                  *)
(***************************************************************************)
\* the latest value of instance s is the null result unlink() published
UnlinkPublishedLast(s) ==
  LET emitted == streams[s].emitted IN
  /\ emitted # <<>>
  /\ emitted[Len(emitted)] = [path |-> NullPath, by |-> "unlink"]

\* fileName was removed with unlink() while a consumer kept it locked: the
\* lock and the instance are still there and the file is not
RemovedUnderLock(fileName) ==
  /\ LockSet(fileName) # {}
  /\ fileName \in DOMAIN cacheObservables
  /\ UnlinkPublishedLast(cacheObservables[fileName])
  /\ ~Present(fileName)

\* C36: when a cached file is removed with unlink(fileName) while another
\* consumer keeps the filename locked, the live stream emits a result with a
\* null path, and a getLocalFilePathFromUrl called afterwards for the same
\* url does not resolve to the path of the removed file: the value its
\* take(1) is handed at subscription is null unless the file exists again.
C36_NoPathOfRemovedFile ==
  [][/\ \A f \in DOMAIN cacheObservables :
          (task[UnlinkTask].fileName = f /\ LockSet(f) # {} /\ UnlinkOk) =>
            UnlinkPublishedLast(cacheObservables[f])'
     /\ \A u \in CallUrls \ {""} :
          (RemovedUnderLock(getFileNameFromUrl(u)) /\ RequestCall(u)) =>
            RequestPath' = NullPath]_vars

----------------------------------------------------------------------------
(***************************************************************************)
(* cacheLocalFile that fails after it removed the target (SpecImporting)   *)
(***************************************************************************)
\* the call of cacheLocalFile is over in this step
ImportEnds == task[ImportTask].pc # "idle" /\ task'[ImportTask].pc = "idle"

\* the call of cacheLocalFile returns from its catch block in this step
ImportFailed ==
  (ImportCatchExistsRec \/ ImportCatchUnlinkRec) /\ ImportEnds

\* under a registry and its instances, the latest value of the live stream of
\* fileName has a path
TellsPath(registry, strs, fileName) ==
  /\ fileName \in DOMAIN registry
  /\ strs[registry[fileName]].emitted # <<>>
  /\ LET emitted == strs[registry[fileName]].emitted
     IN emitted[Len(emitted)].path # NullPath

\* C37: after any cacheLocalFile call for a filename with a live stream the
\* latest emission of the stream carries a non-null path only if the file is
\* at the cache path; a call whose copy or move fails after the previous
\* target was removed returns path null and leaves no file at the target, and
\* the subscribers of the stream are told that the path is no longer valid.
C37_FailedImportTellsSubscribers ==
  [][/\ ImportEnds =>
          (TellsPath(cacheObservables', streams', task[ImportTask].fileName) =>
             files'[task[ImportTask].fileName] # NoFile)
     /\ ImportFailed =>
          /\ impPath' = NullPath
          /\ files'[task[ImportTask].fileName] = NoFile
          /\ ~TellsPath(cacheObservables', streams', task[ImportTask].fileName)]_vars

----------------------------------------------------------------------------
(***************************************************************************)
(* A fetch that outlives its stream (SpecRelockLive)                       *)
(***************************************************************************)
\* instance s is no longer the one registered for its filename
TornDown(s) ==
  /\ s \in DOMAIN streams
  /\ \/ streams[s].fileName \notin DOMAIN cacheObservables
     \/ cacheObservables[streams[s].fileName] # s

\* a release of a lock leaves every pipeline where it is; a torn-down instance
\* is never registered again; and an instance changes only in a step of its
\* own pipeline, one pipeline moving at a time
DeliveredToOwnInstance ==
  /\ (\E f \in CallNames, c \in OneConsumer : UnlockCallRec(f, c)) =>
        /\ streams' = streams
        /\ \A t \in StreamTasks : task'[t] = task[t]
  /\ \A s \in DOMAIN streams :
        /\ TornDown(s) => TornDown(s)'
        /\ streams'[s] # streams[s] => task'[<<"stream", s>>] # task[<<"stream", s>>]
        /\ \A r \in DOMAIN streams \ {s} :
             task'[<<"stream", s>>] = task[<<"stream", s>>]
               \/ task'[<<"stream", r>>] = task[<<"stream", r>>]

\* C38: when the last lock of a filename is released while its fetch is in
\* flight, the fetch is not aborted and runs to completion, provided its
\* native calls settle, and what it produces goes to the torn-down instance
\* alone: an instance created later for the filename under a fresh lock
\* receives nothing but what its own pipeline produces.
C38_FetchOutlivesItsStream ==
  /\ [][DeliveredToOwnInstance]_vars
  /\ \A s \in 1..MaxInstances : (TornDown(s) /\ ~Over(s)) ~> Over(s)

\* C38, reached: the download of the first instance of a filename is still in
\* flight after the instance was torn down, while the second instance,
\* created under a fresh lock, is registered and has its own result.
C38_Reached ==
  \E f \in CallNames :
    /\ InstancesOf(f) = {1, 2}
    /\ TornDown(1)
    /\ task[<<"stream", 1>>].pc = "download"
    /\ f \in DOMAIN cacheObservables /\ cacheObservables[f] = 2
    /\ LockSet(f) # {}
    /\ Over(2)
    /\ streams[2].emitted # <<>>

----------------------------------------------------------------------------
(***************************************************************************)
(* The locks of a component whose source changes (SpecSource)              *)
(***************************************************************************)
\* the filenames whose lock set holds the id of component c
HeldBy(c) == {f \in FileNames : c \in LockSet(f)}

\* the source uri of component c is a remote url the validator accepts
ValidRemote(c) == ~isFile(hoc[c].uri) /\ validateImageComponent(hoc[c].uri)

\* C39: whatever the sequence of mount, changes of the source uri between
\* valid, invalid and file: urls, and unmount of a component, its id is in the
\* lock set of at most one filename, that of its current valid remote url, and
\* in no lock set after unmount; the component is subscribed to an instance
\* only while it holds the lock of the filename of that instance and the
\* instance is the registered one.
C39_OneLockOfCurrentUrl ==
  \A c \in Consumers :
    /\ Cardinality(HeldBy(c)) <= 1
    /\ HeldBy(c) =
         IF hoc[c].phase = "mounted" /\ ValidRemote(c)
         THEN {getFileNameFromUrl(hoc[c].uri)}
         ELSE {}
    /\ hoc[c].phase = "unmounted" => HeldBy(c) = {}
    /\ hoc[c].active =>
         /\ HeldBy(c) = {streams[hoc[c].stream].fileName}
         /\ cacheObservables[streams[hoc[c].stream].fileName] = hoc[c].stream

\* C39, reached: a component was unmounted after its source had changed from
\* one valid url to another and then to a url that is not valid; it got a
\* value on the way, and a second component still holds a lock.
C39_Reached ==
  \E c \in Consumers :
    /\ hoc[c].phase = "unmounted"
    /\ hoc[c].updates = 2
    /\ hoc[c].uri = "http"
    /\ hoc[c].got >= 2
    /\ Len(streams) = 2
    /\ \E d \in Consumers \ {c} : HeldBy(d) # {}

====
